---- MODULE Spec2Model ----
(***************************************************************************)
(* Pi-hole provider of external-dns: PiholeProvider (Records,              *)
(* ApplyChanges) on top of the API v6 session client (piholeClientV6:      *)
(* listRecords, apply, do, checkTokenValidity, retrieveNewToken).          *)
(*                                                                         *)
(* DNS names and targets are strings, an HTTP body is a tagged record.     *)
(* Every HTTP exchange is one step: the request is logged with the token   *)
(* it carries and the backend answers with any response of the request's   *)
(* response set.                                                           *)
(***************************************************************************)
EXTENDS FiniteSets, Integers, Sequences, TLC

\* ------------------------------------------------------------------ bounds
\* longest chain of p.do(req) re-invocations followed for one request
MaxRedo == 4
\* deepest nesting of do() frames (a token request renewing its own token)
MaxDepth == 2
\* non-nominal backend answers the environment may give in one provider call
ProviderFaults == 2
\* non-nominal backend answers the environment may give in one client call,
\* or to two concurrent passes
ClientFaults == 9
\* times one concurrent pass may re-enter do() after a renewal
MaxPassRedo == 1

\* --------------------------------------------------------- program constants
maxRetries == 3
StatusOK == 200
StatusCreated == 201
StatusNoContent == 204
StatusUnauthorized == 401
StatusNotFound == 404

RecordTypeA == "A"
RecordTypeAAAA == "AAAA"
RecordTypeCNAME == "CNAME"
RecordTypeTXT == "TXT"
MethodGet == "GET"
MethodPut == "PUT"
MethodPost == "POST"
MethodDelete == "DELETE"
apiAuthPath == "/api/auth"
hostsPath == "/api/config/dns/hosts"
cnameRecordsPath == "/api/config/dns/cnameRecords"

\* ------------------------------------------------------------ sequences
Last(s) == s[Len(s)]
Front(s) == SubSeq(s, 1, Len(s) - 1)
Range(s) == {s[i] : i \in 1..Len(s)}

\* ------------------------------------------------------------ name spellings
\* A name is a string, read one character at a time with Head, Tail and
\* SubSeq.  unicode.ToLower on one character: the letters A to Z; every other
\* character of the names of the model is a digit, a mark or written with
\* "/" and has no other lower case
LowerOf(c) ==
    CASE c = "A" -> "a" [] c = "B" -> "b" [] c = "C" -> "c" [] c = "D" -> "d"
      [] c = "E" -> "e" [] c = "F" -> "f" [] c = "G" -> "g" [] c = "H" -> "h"
      [] c = "I" -> "i" [] c = "J" -> "j" [] c = "K" -> "k" [] c = "L" -> "l"
      [] c = "M" -> "m" [] c = "N" -> "n" [] c = "O" -> "o" [] c = "P" -> "p"
      [] c = "Q" -> "q" [] c = "R" -> "r" [] c = "S" -> "s" [] c = "T" -> "t"
      [] c = "U" -> "u" [] c = "V" -> "v" [] c = "W" -> "w" [] c = "X" -> "x"
      [] c = "Y" -> "y" [] c = "Z" -> "z"
      [] OTHER -> c

\* s begins with the character written key
Begins(s, key) ==
    /\ Len(s) >= Len(key) /\ SubSeq(s, 1, Len(key)) = key
    /\ (Len(s) = Len(key) \/ SubSeq(s, Len(key) + 1, Len(key) + 1) \notin
            {"0", "1", "2", "3", "4", "5", "6", "7", "8", "9"})

\* strings.ToLower
RECURSIVE ToLower(_)
ToLower(s) ==
    IF Len(s) = 0 THEN s
    ELSE IF Head(s) = "/" /\ Begins(s, "/198") THEN "/230" \o ToLower(SubSeq(s, 5, Len(s)))
    ELSE IF Head(s) = "/" /\ Begins(s, "/197") THEN "/229" \o ToLower(SubSeq(s, 5, Len(s)))
    ELSE LowerOf(Head(s)) \o ToLower(Tail(s))

\* strings.TrimSuffix(s, "."): one trailing dot is removed, never two
TrimSuffixDot(s) ==
    IF Len(s) > 0 /\ SubSeq(s, Len(s), Len(s)) = "." THEN SubSeq(s, 1, Len(s) - 1) ELSE s

\* strings.TrimSpace
RECURSIVE TrimSpace(_)
TrimSpace(s) ==
    IF Len(s) = 0 THEN s
    ELSE IF Head(s) = " " THEN TrimSpace(Tail(s))
    ELSE IF SubSeq(s, Len(s), Len(s)) = " " THEN TrimSpace(SubSeq(s, 1, Len(s) - 1))
    ELSE s

\* strings.Split(s, "."): cur is the label being read
RECURSIVE SplitFrom(_, _)
SplitFrom(s, cur) ==
    IF Len(s) = 0 THEN <<cur>>
    ELSE IF Head(s) = "." THEN <<cur>> \o SplitFrom(Tail(s), "")
    ELSE SplitFrom(Tail(s), cur \o Head(s))

Split(s) == SplitFrom(s, "")

\* strings.Join(labels, ".")
RECURSIVE Join(_)
Join(labels) ==
    IF Len(labels) = 0 THEN ""
    ELSE IF Len(labels) = 1 THEN labels[1]
    ELSE labels[1] \o "." \o Join(Tail(labels))

\* punycode decoding of a label that carries the ACE prefix "xn--".  A
\* character outside ASCII is written "/" and a key: U+00F8 (o with stroke)
\* is "/o" and its upper case U+00D8 "/O"; a character without case is
\* written with its decimal code point, U+9EDE "/40670", U+770B "/30475",
\* U+1F638 "/128568", U+1F4C8 "/128200", U+1F60D "/128525", U+1F929 "/129321";
\* so are U+00E6 "/230" and U+00E5 "/229", whose upper cases are U+00C6 "/198"
\* and U+00C5 "/197".
punyDecode(label) ==
    CASE label = "xn--bar-zna" -> "/obar"
      [] label = "xn--c1yn36f" -> "/40670/30475"
      [] label = "xn--nordic--w1a" -> "nordic-/o"
      [] label = "xn--kitty-pd34d" -> "kitty/128568"
      [] label = "xn--xn--kitty-pd34d-hn01b3542b" -> "xn--kitty-/40670/30475pd34d"
      [] label = "xn--stonks-u354e" -> "stonks/128200"
      [] label = "xn--5cab8c" -> "/230/o/229"
      [] label = "xn--r28h" -> "/128525"
      [] OTHER -> label

\* idna ToUnicode: the name is mapped to lower case, then every label that
\* carries the ACE prefix is decoded
ToUnicode(s) ==
    LET labels == Split(ToLower(s))
    IN Join([i \in 1..Len(labels) |-> punyDecode(labels[i])])

\* normalizeDomain leaving encoded labels encoded
normalizeDomainEncoded(domain) == ToLower(TrimSuffixDot(domain))

\* normalizeDomain: one trailing dot stripped, Unicode form, lower case
normalizeDomain(domain) == ToLower(ToUnicode(TrimSuffixDot(domain)))

\* ------------------------------------------------------------ DNS names
\* the labels of a name; a name written with a leading "." has an empty
\* first label
Labels(name) == Split(name)

\* strings.HasSuffix on whole labels: s ends with suf
HasLabelSuffix(s, suf) ==
    /\ Len(suf) <= Len(s)
    /\ SubSeq(s, Len(s) - Len(suf) + 1, Len(s)) = suf

\* strings.HasSuffix, character by character
HasSuffix(s, suf) ==
    /\ Len(suf) <= Len(s)
    /\ SubSeq(s, Len(s) - Len(suf) + 1, Len(s)) = suf

\* strings.Contains(ep.DNSName, "*")
ContainsWildcard(name) == \E i \in 1..Len(name) : SubSeq(name, i, i) = "*"

\* matchFilter comparing characters, not labels: a name matches the rule it
\* ends with
matchFilterAnySuffix(filters, domain, emptyval) ==
    IF filters = <<>> THEN emptyval
    ELSE \E i \in 1..Len(filters) : HasSuffix(domain, filters[i])

\* matchFilter: a rule with a leading "." matches strict subdomains only, a
\* rule without matches the apex and its subdomains; no rule gives emptyval
matchFilter(filters, domain, emptyval) ==
    IF filters = <<>> THEN emptyval
    ELSE \E i \in 1..Len(filters) :
            LET f == Labels(filters[i])
                d == Labels(domain)
            IN IF f[1] = ""
               THEN HasLabelSuffix(d, Tail(f)) /\ Len(d) > Len(f) - 1
               ELSE HasLabelSuffix(d, f)

\* Match asking the exclusion rules only when no inclusion rule matched
MatchInclusionWins(df, domain) ==
    LET d == normalizeDomain(domain)
    IN \/ (df.Filters # <<>> /\ matchFilter(df.Filters, d, TRUE))
       \/ ~matchFilter(df.exclude, d, FALSE)

\* the pattern syntax of the regular expressions in use: literal characters,
\* "\c" for the character c, "." for any character, "^" first and "$" last,
\* and a group "(?:a|b|..)" of alternatives without groups inside.

\* the position of the first character c in s, 0 if there is none
RECURSIVE IndexFrom(_, _, _)
IndexFrom(s, c, i) ==
    IF i > Len(s) THEN 0
    ELSE IF SubSeq(s, i, i) = c THEN i
    ELSE IndexFrom(s, c, i + 1)

\* strings.Split(s, "|"): cur is the alternative being read
RECURSIVE SplitBarFrom(_, _)
SplitBarFrom(s, cur) ==
    IF Len(s) = 0 THEN <<cur>>
    ELSE IF Head(s) = "|" THEN <<cur>> \o SplitBarFrom(Tail(s), "")
    ELSE SplitBarFrom(Tail(s), cur \o Head(s))

\* the pattern p (without "^") matches s from its first character on
RECURSIVE MatchHere(_, _)
MatchHere(p, s) ==
    IF Len(p) = 0 THEN TRUE
    ELSE IF p = "$" THEN Len(s) = 0
    ELSE IF Len(p) >= 3 /\ SubSeq(p, 1, 3) = "(?:"
    THEN LET close == IndexFrom(p, ")", 4)
             alts == SplitBarFrom(SubSeq(p, 4, close - 1), "")
             rest == SubSeq(p, close + 1, Len(p))
         IN \E a \in 1..Len(alts) : MatchHere(alts[a] \o rest, s)
    ELSE IF Head(p) = "\\"
    THEN /\ Len(s) > 0 /\ Head(s) = SubSeq(p, 2, 2)
         /\ MatchHere(SubSeq(p, 3, Len(p)), Tail(s))
    ELSE /\ Len(s) > 0 /\ (Head(p) = "." \/ Head(s) = Head(p))
         /\ MatchHere(Tail(p), Tail(s))

\* regexp.MatchString: the pattern matches somewhere in the name, or at its
\* start when it begins with "^"; "" matches every name
MatchString(pattern, name) ==
    IF Len(pattern) > 0 /\ Head(pattern) = "^" THEN MatchHere(Tail(pattern), name)
    ELSE \E i \in 1..(Len(name) + 1) : MatchHere(pattern, SubSeq(name, i, Len(name)))

\* matchRegex: the inclusion pattern matches and the exclusion pattern, when
\* there is one, does not
matchRegex(regex, regexExclusion, domain) ==
    /\ MatchString(regex, domain)
    /\ ~(regexExclusion # "" /\ MatchString(regexExclusion, domain))

\* a filter in regex mode
IsRegexMode(df) == df.regex # "" \/ df.regexExclusion # ""

\* DomainFilter.Match
Match(df, domain) ==
    LET d == normalizeDomain(domain)
    IN IF IsRegexMode(df) THEN matchRegex(df.regex, df.regexExclusion, d)
       ELSE /\ matchFilter(df.Filters, d, TRUE)
            /\ ~matchFilter(df.exclude, d, FALSE)

\* MatchParent taking a name equal to a rule for a parent of it
MatchParentOrEqual(df, domain) ==
    LET d == normalizeDomain(domain)
    IN IF matchFilter(df.exclude, d, FALSE) THEN FALSE
       ELSE IF df.Filters = <<>> THEN TRUE
       ELSE \E i \in 1..Len(df.Filters) :
               /\ Head(df.Filters[i]) # "."
               /\ (df.Filters[i] = d \/ HasSuffix(df.Filters[i], "." \o d))

\* DomainFilter.MatchParent: an excluded name is no parent; with no inclusion
\* rule every other name is; else the name is a parent when some rule without
\* leading dot ends with "." followed by the name
MatchParent(df, domain) ==
    LET d == normalizeDomain(domain)
    IN IF matchFilter(df.exclude, d, FALSE) THEN FALSE
       ELSE IF df.Filters = <<>> THEN TRUE
       ELSE \E i \in 1..Len(df.Filters) :
               /\ Head(df.Filters[i]) # "."
               /\ HasSuffix(df.Filters[i], "." \o d)

\* prepareFilters keeping the rules that are empty after normalization
prepareFiltersKeepEmpty(filters) ==
    [i \in 1..Len(filters) |-> normalizeDomain(TrimSpace(filters[i]))]

\* prepareFilters: every rule is trimmed and normalized, and a rule that is
\* empty after that is dropped
prepareFilters(filters) ==
    LET norm == [i \in 1..Len(filters) |-> normalizeDomain(TrimSpace(filters[i]))]
    IN SelectSeq(norm, LAMBDA rule : Len(rule) > 0)

\* NewDomainFilterWithExclusions, NewDomainFilter, and the zero DomainFilter{}
NewDomainFilterWithExclusions(domainFilters, excludeDomains) ==
    [Filters |-> prepareFilters(domainFilters), exclude |-> prepareFilters(excludeDomains),
     regex |-> "", regexExclusion |-> ""]

NewDomainFilter(domainFilters) == NewDomainFilterWithExclusions(domainFilters, <<>>)

ZeroDomainFilter == [Filters |-> <<>>, exclude |-> <<>>, regex |-> "", regexExclusion |-> ""]

\* NewRegexDomainFilter
NewRegexDomainFilter(regex, regexExclusion) ==
    [Filters |-> <<>>, exclude |-> <<>>, regex |-> regex, regexExclusion |-> regexExclusion]

\* DomainFilter.IsConfigured
IsConfigured(df) == IsRegexMode(df) \/ Len(df.Filters) > 0 \/ Len(df.exclude) > 0

\* ------------------------------------------------------------ endpoints
\* Targets is a Go slice: nilTargets tells the nil slice from an allocated
\* slice without elements (len is 0 for both, cmp.Diff tells them apart).
\* NewEndpointWithTTL allocates the list it stores.
NewEndpointWithTTL(name, rtype, ttl, targets) ==
    [DNSName |-> name, RecordType |-> rtype, RecordTTL |-> ttl, Targets |-> targets,
     nilTargets |-> FALSE]

\* an endpoint whose Targets was never assigned (a struct literal without it)
WithoutTargets(name, rtype, ttl) ==
    [NewEndpointWithTTL(name, rtype, ttl, <<>>) EXCEPT !.nilTargets = TRUE]

\* fmt.Sprintf("%d", ttl) and strconv.ParseInt(s, 10, 64) on the TTLs of the
\* model; ParseTTL is -1 where ParseInt returns an error
FormatTTL(ttl) == IF ttl = 300 THEN "300" ELSE "0"
ParseTTL(s) == IF s = "300" THEN 300 ELSE IF s = "0" THEN 0 ELSE -1

\* TTL.IsConfigured
TTLIsConfigured(ttl) == ttl > 0

piholeEntryKey(ep) == <<ep.DNSName, ep.RecordType>>

\* byte order of the target strings of the model, as slices.Sort compares them
TargetOrder == <<"1.1.1.1", "2.2.2.2", "::1", "h.example.org">>
TargetRank(t) == CHOOSE i \in 1..Len(TargetOrder) : TargetOrder[i] = t

RECURSIVE InsertSorted(_, _)
InsertSorted(t, s) ==
    IF s = <<>> THEN <<t>>
    ELSE IF TargetRank(t) <= TargetRank(s[1]) THEN <<t>> \o s
    ELSE <<s[1]>> \o InsertSorted(t, Tail(s))

\* slices.Sort
RECURSIVE SortTargets(_)
SortTargets(s) == IF s = <<>> THEN <<>> ELSE InsertSorted(s[1], SortTargets(Tail(s)))

\* slices.Compact: drops each element equal to its predecessor
RECURSIVE Compact(_)
Compact(s) ==
    IF Len(s) <= 1 THEN s
    ELSE IF s[1] = s[2] THEN Compact(Tail(s))
    ELSE <<s[1]>> \o Compact(Tail(s))

\* netip.ParseAddr(ip) succeeds and addr.Is4()
isValidIPv4(ip) == ip \in {"1.1.1.1", "2.2.2.2"}
\* netip.ParseAddr(ip) succeeds and addr.Is6()
isValidIPv6(ip) == ip \in {"::1"}

\* ------------------------------------------------------------ requests
\* urlForRecordType: the URL of the record category, "" with an error
urlForRecordType(rtype) ==
    IF rtype \in {RecordTypeA, RecordTypeAAAA} THEN hostsPath
    ELSE IF rtype = RecordTypeCNAME THEN cnameRecordsPath
    ELSE ""

\* sids are the values of the X-FTL-SID header: do() adds one per invocation
Request(method, path, param) ==
    [method |-> method, path |-> path, param |-> param, sids |-> <<>>]

\* the request apply() builds for one target: the URL parameter is the record
\* line, "<target> <name>" for A/AAAA and "<name>,<target>[,<ttl>]" for CNAME
TargetRequest(action, ep, target) ==
    Request(action, urlForRecordType(ep.RecordType),
        IF ep.RecordType = RecordTypeCNAME
        THEN IF TTLIsConfigured(ep.RecordTTL)
             THEN <<ep.DNSName, ",", target, ",", FormatTTL(ep.RecordTTL)>>
             ELSE <<ep.DNSName, ",", target>>
        ELSE <<target, " ", ep.DNSName>>)

\* ------------------------------------------------------------ responses
\* status 0 is a transport error (httpClient.Do returns err).  tag is the shape
\* of the body: "bad" is not JSON, "error" an error envelope, "present" an
\* error envelope whose message contains "Item already present", "session" an
\* auth answer (sid, valid), "records" a config answer (hosts, cnames).
Response(status, tag) ==
    [status |-> status, tag |-> tag, sid |-> FALSE, valid |-> FALSE,
     hosts |-> <<>>, cnames |-> <<>>]

NetErr == Response(0, "none")
SessionResponse(status, sid, valid) ==
    [Response(status, "session") EXCEPT !.sid = sid, !.valid = valid]
RecordsResponse(hosts, cnames) ==
    [Response(StatusOK, "records") EXCEPT !.hosts = hosts, !.cnames = cnames]

ErrorResponses ==
    { NetErr,
      Response(StatusUnauthorized, "error"),
      Response(StatusNotFound, "error"),
      Response(400, "present"),
      Response(500, "error"),
      Response(StatusNotFound, "bad") }

\* record lines the backend may list: each a sequence of fields and separators
HostLines ==
    { <<"1.1.1.1", " ", "a.example.org">>,
      <<"2.2.2.2", " ", "a.example.org">>,
      <<"::1", " ", "a.example.org">>,
      <<"1.1.1.1", " ", "x.other.com">>,
      <<"1.1.1.1">> }
CnameLines ==
    { <<"c.example.org", ",", "h.example.org">>,
      <<"c.example.org", ",", "h.example.org", ",", "300">>,
      <<"y.other.com", ",", "h.example.org">> }
HostListings == {<<>>} \cup {<<l>> : l \in HostLines}
    \cup { <<l1, l2>> : l1 \in HostLines, l2 \in HostLines }
CnameListings == {<<>>} \cup {<<l>> : l \in CnameLines}

\* answers to a request sent through do(), by kind of request
OrigResponses(req) ==
    ErrorResponses \cup
    ( IF req.method = MethodGet
      THEN IF req.path = hostsPath
           THEN {RecordsResponse(h, <<>>) : h \in HostListings}
           ELSE {RecordsResponse(<<>>, c) : c \in CnameListings}
      ELSE IF req.method = MethodPost
      THEN { SessionResponse(StatusOK, TRUE, TRUE),
             SessionResponse(StatusOK, FALSE, FALSE),
             Response(StatusOK, "bad") }
      ELSE IF req.method = MethodPut
      THEN {Response(StatusCreated, "empty")}
      ELSE {Response(StatusNoContent, "empty")} )

\* answers to the token-introspection request of checkTokenValidity
IntrospectResponses ==
    { NetErr, Response(StatusOK, "bad"),
      SessionResponse(StatusOK, FALSE, TRUE),
      SessionResponse(StatusUnauthorized, FALSE, FALSE) }

\* the answer a healthy backend with a live session gives
IsNominal(req, r) ==
    IF req.path = apiAuthPath
    THEN IF req.method = MethodGet THEN r.tag = "session" /\ r.valid
         ELSE r.tag = "session" /\ r.sid
    ELSE r.status \in {StatusOK, StatusCreated, StatusNoContent}

\* ------------------------------------------------------------ inputs
IncludeExampleOrg == NewDomainFilter(<<"example.org">>)

Config(version, dryRun, df, password) ==
    [APIVersion |-> version, DryRun |-> dryRun, DomainFilter |-> df, Password |-> password,
     Server |-> TRUE]

EndpointNames == {"a.example.org", "x.other.com", "*.example.org"}

\* the names the provider meets in the model: the names of the endpoints of a
\* ChangeSet and the names the backend lists
ProviderNames == EndpointNames \cup {"c.example.org", "y.other.com"}

\* DomainFilter.Match of the configured filter on each of these names
matched == [df \in {IncludeExampleOrg}, name \in ProviderNames |-> Match(df, name)]

\* strings.Contains(ep.DNSName, "*") on each of these names
wildcard == [name \in ProviderNames |-> ContainsWildcard(name)]
EndpointTypes == {RecordTypeA, RecordTypeCNAME}
TargetLists == {<<"1.1.1.1">>, <<"2.2.2.2">>, <<"1.1.1.1", "2.2.2.2">>}
Endpoints ==
    { NewEndpointWithTTL(n, t, 0, ts) : n \in EndpointNames, t \in EndpointTypes, ts \in TargetLists }

\* UpdateOld and UpdateNew as the planner pairs them: one old and one new
\* record of the same Entry Key
UpdatePairs ==
    {<< <<>>, <<>> >>} \cup
    { u \in { << <<o>>, <<n>> >> : o \in Endpoints, n \in Endpoints } :
        piholeEntryKey(u[1][1]) = piholeEntryKey(u[2][1]) }

ShortLists == {<<>>} \cup {<<e>> : e \in Endpoints}

ChangeSets ==
    { [Create |-> c, Delete |-> d, UpdateOld |-> u[1], UpdateNew |-> u[2]] :
        c \in ShortLists, d \in ShortLists, u \in UpdatePairs }

NoChanges == [Create |-> <<>>, Delete |-> <<>>, UpdateOld |-> <<>>, UpdateNew |-> <<>>]

\* ------------------------------------------------------------ state
VARIABLES
    cfg,        \* PiholeConfig of the provider and its client
    token,      \* piholeClientV6.token: 0 is "", k > 0 the k-th session id issued
    changes,    \* the plan.Changes ApplyChanges works on (its endpoints are shared)
    pc,         \* position of the provider call in progress
    idx,        \* index of the loop of the provider call in progress
    updateNew,  \* ApplyChanges' map: Entry Key -> index of the record in changes.UpdateNew
    pending,    \* keys of updateNew the final range loop has not visited yet
    err,        \* result of the provider call: "none" while it runs, "nil" on success
    out,        \* endpoints returned by Records
    apiLog,     \* calls of createRecord/deleteRecord made by ApplyChanges, with result
    ap,         \* piholeClientV6.apply in progress: action, endpoint, target index
    stack,      \* frames of piholeClientV6.do in progress, innermost last
    ret,        \* value returned by the do() frame that finished last, until consumed
    httpLog,    \* HTTP requests sent, in order, with the token attached and the answer
    op,         \* number of requests apply() and getConfigValue handed to do() so far
    budget,     \* non-nominal answers the backend may still give
    srv,        \* the backend's record set, where the run tracks it, and the run number
    conc,       \* concurrent passes through do() on one client, and the sids issued
    filt,       \* a DomainFilter built from rules, a name, and the answers for it
    gw          \* a Gateway given to hostNamesFromGateway, and the hostnames returned

vars == <<cfg, token, changes, pc, idx, updateNew, pending, err, out, apiLog, ap,
          stack, ret, httpLog, op, budget, srv, conc, filt, gw>>

\* the state of the concurrent passes, of the filter evaluation and of the
\* gateway source
others == <<conc, filt, gw>>

NoApply == [active |-> FALSE, action |-> "", ep |-> NewEndpointWithTTL("", "", 0, <<>>), ti |-> 0]
NoRet == [set |-> FALSE, err |-> "nil", body |-> Response(0, "none")]
EmptyMap == [k \in {} |-> 0]

\* the backend's records are not tracked: it may answer anything
Untracked == [tracked |-> FALSE, records |-> {}, initial |-> {}, run |-> 0]
NoPasses == [pass |-> <<>>, issued |-> 0]
NoFilter == [set |-> FALSE]
NoGateway == [set |-> FALSE]

InitProvider ==
    /\ changes = NoChanges
    /\ pc = "idle" /\ idx = 0
    /\ updateNew = EmptyMap /\ pending = {}
    /\ err = "none" /\ out = <<>>
    /\ apiLog = <<>> /\ ap = NoApply
    /\ stack = <<>> /\ ret = NoRet /\ httpLog = <<>> /\ op = 0
    /\ budget = 0

InitIdle == InitProvider /\ srv = Untracked /\ conc = NoPasses /\ filt = NoFilter /\ gw = NoGateway

\* NewPiholeProvider with a password: the v6 client holds its first token
Init ==
    /\ cfg \in {Config(v, FALSE, IncludeExampleOrg, TRUE) : v \in {"6", "5"}}
    /\ token = 1
    /\ InitIdle

\* ------------------------------------------------------------ piholeClientV6.do
Top == stack[Len(stack)]
Frame(req, redo) == [req |-> req, pc |-> "send", tryCount |-> 0, redo |-> redo]
SetTop(f) == [stack EXCEPT ![Len(stack)] = f]

\* the frame on top returns (jRes, err) to its caller
Return(e, body) ==
    /\ stack' = Front(stack)
    /\ ret' = [set |-> TRUE, err |-> e, body |-> body]

\* the exchange is logged: request, token held, answer, what the client made
\* of the answer, the createRecord/deleteRecord call and the do() operation it
\* belongs to, and the depth of the do() frame that sent it
Logged(req, r, result) ==
    httpLog' = Append(httpLog,
        [req |-> req, token |-> token, resp |-> r, result |-> result,
         call |-> Len(apiLog), op |-> op, depth |-> Len(stack)])

Spend(req, r) ==
    /\ ~IsNominal(req, r) => budget > 0
    /\ budget' = IF IsNominal(req, r) THEN budget ELSE budget - 1

\* mutant: a 404 answer to a DELETE is an error like any other status
doResultStrict(req, r, tok) ==
    IF r.status = 0 THEN "transport"
    ELSE IF r.status \in {StatusOK, StatusCreated, StatusNoContent} THEN "nil"
    ELSE IF r.tag = "bad" THEN "unmarshal"
    ELSE IF r.tag = "present" THEN "nil"
    ELSE IF r.status = StatusUnauthorized /\ tok # 0 THEN "renew"
    ELSE "status"

\* mutant: a 401 answer enters the renewal branch also when no token is held
doResultRenewsWithoutToken(req, r, tok) ==
    IF r.status = 0 THEN "transport"
    ELSE IF r.status \in {StatusOK, StatusCreated, StatusNoContent} THEN "nil"
    ELSE IF r.tag = "bad" THEN "unmarshal"
    ELSE IF r.tag = "present" THEN "nil"
    ELSE IF r.status = StatusNotFound /\ req.method = MethodDelete THEN "nil"
    ELSE IF r.status = StatusUnauthorized THEN "renew"
    ELSE "status"

\* what do() makes of the answer r to req: "nil" (jRes returned), an error,
\* or "renew" (the 401 branch is entered)
doResult(req, r, tok) ==
    IF r.status = 0 THEN "transport"
    ELSE IF r.status \in {StatusOK, StatusCreated, StatusNoContent} THEN "nil"
    ELSE IF r.tag = "bad" THEN "unmarshal"
    ELSE IF r.tag = "present" THEN "nil"
    ELSE IF r.status = StatusNotFound /\ req.method = MethodDelete THEN "nil"
    ELSE IF r.status = StatusUnauthorized /\ tok # 0 THEN "renew"
    ELSE "status"

\* req.Header.Add("X-FTL-SID", p.token) when a token is held
WithToken(req, tok) == IF tok # 0 THEN [req EXCEPT !.sids = Append(@, tok)] ELSE req

\* the record a PUT or DELETE request names
RequestRecord(req) == <<req.path, req.param>>

\* the backend's records after it has carried out req
Effect(req, records) ==
    IF req.method = MethodPut THEN records \cup {RequestRecord(req)}
    ELSE IF req.method = MethodDelete THEN records \ {RequestRecord(req)}
    ELSE records

\* the answer of a backend that keeps its records: a PUT of a record it has is
\* refused with "Item already present", a DELETE of one it lacks with 404
Truthful(req, records) ==
    IF req.method = MethodPut
    THEN IF RequestRecord(req) \in records THEN Response(400, "present")
         ELSE Response(StatusCreated, "empty")
    ELSE IF RequestRecord(req) \in records THEN Response(StatusNoContent, "empty")
         ELSE Response(StatusNotFound, "error")

\* what may happen to a request sent through do(): the answer, the backend's
\* records afterwards, and whether this counts as a fault.  Where the records
\* are tracked, a record request is carried out and answered truthfully, or
\* fails in transit (before or after it was carried out) or with an error.
Answers(req) ==
    IF srv.tracked /\ req.method \in {MethodPut, MethodDelete}
    THEN { [resp |-> Truthful(req, srv.records), records |-> Effect(req, srv.records),
            fault |-> FALSE],
           [resp |-> NetErr, records |-> srv.records, fault |-> TRUE],
           [resp |-> NetErr, records |-> Effect(req, srv.records), fault |-> TRUE],
           [resp |-> Response(500, "error"), records |-> srv.records, fault |-> TRUE],
           [resp |-> Response(StatusUnauthorized, "error"), records |-> srv.records,
            fault |-> TRUE] }
    ELSE { [resp |-> r, records |-> srv.records, fault |-> ~IsNominal(req, r)] :
                r \in OrigResponses(req) }

\* do(): the request is sent with the current token and the answer classified
DoSend ==
    /\ stack # <<>> /\ Top.pc = "send" /\ ~ret.set
    /\ \E a \in Answers(Top.req) : LET r == a.resp IN
        /\ a.fault => budget > 0
        /\ budget' = IF a.fault THEN budget - 1 ELSE budget
        /\ srv' = [srv EXCEPT !.records = a.records]
        /\ Logged(WithToken(Top.req, token), r, doResult(Top.req, r, token))
        /\ IF doResult(Top.req, r, token) = "renew"
           THEN /\ stack' = SetTop([Top EXCEPT !.req = WithToken(@, token),
                                               !.pc = "loop", !.tryCount = 1])
                /\ ret' = ret
           ELSE Return(doResult(Top.req, r, token), r)
    /\ UNCHANGED <<others, cfg, token, changes, pc, idx, updateNew, pending, err, out, apiLog, ap, op>>

IntrospectRequest == Request(MethodGet, apiAuthPath, <<>>)
TokenRequest == Request(MethodPost, apiAuthPath, <<>>)
\* checkTokenValidity without a token answers (false, nil) and sends nothing
NoExchange == Response(0, "skipped")

\* checkTokenValidity: "valid", "invalid" or the error it returns
checkTokenValidity(r) ==
    IF r = NoExchange THEN "invalid"
    ELSE IF r.status = 0 THEN "transport"
    ELSE IF r.tag = "bad" THEN "unmarshal"
    ELSE IF r.tag = "session" /\ r.valid THEN "valid"
    ELSE "invalid"

\* mutant: the exhaustion test after the loop is off by one try
afterLoopEarly(tryCount) == IF tryCount > 1 THEN "maxtries" ELSE "redo"

\* after the renewal loop: the renewal-exhausted error, or do(req) again
afterLoop(tryCount) == IF tryCount > maxRetries THEN "maxtries" ELSE "redo"

\* the renewal loop is left with tryCount = tc: the error is returned, or
\* p.do(req) is invoked on the same request and its result returned
AfterLoop(tc) ==
    IF afterLoop(tc) = "maxtries"
    THEN Return("maxtries", NoExchange)
    ELSE /\ Top.redo < MaxRedo
         /\ stack' = SetTop(Frame(Top.req, Top.redo + 1))
         /\ ret' = NoRet

\* the renewal loop after retrieveNewToken returned nil: tryCount++ and
\* continue, which leaves the loop once tryCount > maxRetries
NextTry ==
    IF Top.tryCount + 1 <= maxRetries
    THEN /\ stack' = SetTop([Top EXCEPT !.pc = "loop", !.tryCount = @ + 1])
         /\ ret' = NoRet
    ELSE AfterLoop(Top.tryCount + 1)

\* one pass of the renewal loop: the token is introspected; a valid token ends
\* the loop and do(req) is invoked again, an invalid one is renewed
Introspect ==
    /\ stack # <<>> /\ Top.pc = "loop" /\ ~ret.set
    /\ \E r \in (IF token = 0 THEN {NoExchange} ELSE IntrospectResponses) :
        LET v == checkTokenValidity(r) IN
        /\ IF r = NoExchange
           THEN UNCHANGED <<httpLog, budget>>
           ELSE /\ Spend(IntrospectRequest, r)
                /\ Logged(WithToken(IntrospectRequest, token), r, v)
        /\ IF v = "valid"
           THEN AfterLoop(Top.tryCount)
           ELSE IF v = "invalid"
           THEN IF cfg.Password
                THEN /\ Len(stack) < MaxDepth
                     /\ stack' = Append(SetTop([Top EXCEPT !.pc = "refresh"]),
                                        Frame(TokenRequest, 0))
                     /\ ret' = ret
                ELSE NextTry
           ELSE Return(v, NoExchange)
    /\ UNCHANGED <<others, srv, cfg, token, changes, pc, idx, updateNew, pending, err, out, apiLog, ap, op>>

\* retrieveNewToken after do() returned jRes without error: p.token is set to
\* the session id of a parsable answer that carries one, and is left alone
\* otherwise; the function returns nil in all three cases
newToken(body, tok) == IF body.tag = "session" /\ body.sid THEN tok + 1 ELSE tok

\* retrieveNewToken after its do() returned: an error is passed on; else the
\* session id of a parsable answer becomes the token, and the loop goes on
RefreshReturn ==
    /\ stack # <<>> /\ Top.pc = "refresh" /\ ret.set
    /\ IF ret.err # "nil"
       THEN /\ Return(ret.err, NoExchange)
            /\ token' = token
       ELSE /\ token' = newToken(ret.body, token)
            /\ NextTry
    /\ UNCHANGED <<others, srv, cfg, changes, pc, idx, updateNew, pending, err, out, apiLog, ap,
                   httpLog, op, budget>>

\* ------------------------------------------------------------ piholeClientV6.apply
\* mutant: apply() without the DomainFilter check
applyCheckUnscoped(ep) ==
    IF urlForRecordType(ep.RecordType) = "" THEN "skip"
    ELSE IF Len(ep.Targets) = 0 THEN "skip"
    ELSE IF wildcard[ep.DNSName] THEN "soft"
    ELSE IF ep.RecordType = RecordTypeCNAME /\ Len(ep.Targets) > 1 THEN "soft"
    ELSE "go"

\* mutant: apply() without the checks of the name and of the CNAME targets
applyCheckUnvalidated(ep) ==
    IF ~matched[cfg.DomainFilter, ep.DNSName] THEN "skip"
    ELSE IF urlForRecordType(ep.RecordType) = "" THEN "skip"
    ELSE IF Len(ep.Targets) = 0 THEN "skip"
    ELSE "go"

\* the checks of apply() before its target loop: "skip" returns nil without a
\* call, "soft" returns a soft error, "go" enters the loop
applyCheck(ep) ==
    IF ~matched[cfg.DomainFilter, ep.DNSName] THEN "skip"
    ELSE IF urlForRecordType(ep.RecordType) = "" THEN "skip"
    ELSE IF Len(ep.Targets) = 0 THEN "skip"
    ELSE IF wildcard[ep.DNSName] THEN "soft"
    ELSE IF ep.RecordType = RecordTypeCNAME /\ Len(ep.Targets) > 1 THEN "soft"
    ELSE "go"

\* mutant: an error of createRecord/deleteRecord is dropped and the loop goes on
ApiReturnKeepsGoing(res) ==
    /\ apiLog' = [apiLog EXCEPT ![Len(apiLog)].res = res]
    /\ IF pc = "client"
       THEN pc' = "done" /\ err' = res /\ idx' = idx
       ELSE pc' = pc /\ err' = err /\ idx' = idx + 1

\* createRecord/deleteRecord returned res to the provider call in progress:
\* ApplyChanges returns an error at once and goes on to the next record on nil
ApiReturn(res) ==
    /\ apiLog' = [apiLog EXCEPT ![Len(apiLog)].res = res]
    /\ IF res # "nil" \/ pc = "client"
       THEN pc' = "done" /\ err' = res /\ idx' = idx
       ELSE pc' = pc /\ err' = err /\ idx' = idx + 1

\* results of createRecord/deleteRecord of the client for API versions below 6
LegacyResults == {"nil", "soft", "status"}

\* p.api.createRecord / p.api.deleteRecord called for ep, a record of list src
Call(method, ep, src, at) ==
    \E res \in (IF cfg.APIVersion = "6"
                THEN {IF applyCheck(ep) = "skip" THEN "nil"
                      ELSE IF applyCheck(ep) = "soft" THEN "soft" ELSE "pending"}
                ELSE LegacyResults) :
        /\ apiLog' = Append(apiLog,
                [method |-> method, ep |-> ep, src |-> src, at |-> at, res |-> res])
        /\ IF res = "pending"
           THEN /\ ap' = [active |-> TRUE, action |-> method, ep |-> ep, ti |-> 1]
                /\ pc' = pc /\ err' = err /\ idx' = idx
           ELSE /\ ap' = ap
                /\ IF res # "nil" \/ pc = "client"
                   THEN pc' = "done" /\ err' = res /\ idx' = idx
                   ELSE pc' = pc /\ err' = err /\ idx' = idx + 1

Running == ap.active /\ stack = <<>>

\* mutant: the target loop of apply() sends its requests also with DryRun
ApplyTargetIgnoresDryRun ==
    /\ Running /\ ~ret.set
    /\ IF ap.ti > Len(ap.ep.Targets)
       THEN /\ ApiReturn("nil")
            /\ ap' = NoApply
            /\ UNCHANGED <<stack, op>>
       ELSE /\ stack' = <<Frame(TargetRequest(ap.action, ap.ep, ap.ep.Targets[ap.ti]), 0)>>
            /\ op' = op + 1
            /\ UNCHANGED <<apiLog, pc, err, idx, ap>>
    /\ UNCHANGED <<others, srv, cfg, token, changes, updateNew, pending, out, ret, httpLog, budget>>

\* head of the target loop of apply(): the loop is over (apply returns nil),
\* or DryRun skips the target, or the request for the target goes to do()
ApplyTarget ==
    /\ Running /\ ~ret.set
    /\ IF ap.ti > Len(ap.ep.Targets)
       THEN /\ ApiReturn("nil")
            /\ ap' = NoApply
            /\ UNCHANGED <<stack, op>>
       ELSE IF cfg.DryRun
       THEN /\ ap' = [ap EXCEPT !.ti = @ + 1]
            /\ UNCHANGED <<apiLog, pc, err, idx, stack, op>>
       ELSE /\ stack' = <<Frame(TargetRequest(ap.action, ap.ep, ap.ep.Targets[ap.ti]), 0)>>
            /\ op' = op + 1
            /\ UNCHANGED <<apiLog, pc, err, idx, ap>>
    /\ UNCHANGED <<others, srv, cfg, token, changes, updateNew, pending, out, ret, httpLog, budget>>

\* do() returned to apply(): an error ends apply(), success moves to the next target
ApplyReturn ==
    /\ Running /\ ret.set
    /\ ret' = NoRet
    /\ IF ret.err # "nil"
       THEN ApiReturn(ret.err) /\ ap' = NoApply
       ELSE /\ ap' = [ap EXCEPT !.ti = @ + 1]
            /\ UNCHANGED <<apiLog, pc, err, idx>>
    /\ UNCHANGED <<others, srv, cfg, token, changes, updateNew, pending, out, stack, httpLog, op, budget>>

\* ------------------------------------------------------------ PiholeProvider.ApplyChanges
\* the loop over changes.UpdateNew that fills the map updateNew, from record i
\* on: m is the map so far, upd the UpdateNew records (shared with the caller).
\* For API version 6 a record whose key is already in the map is merged into
\* the record the map holds: targets appended, sorted and compacted in place
\* (append of no element to a nil slice leaves it nil, Sort and Compact keep it).
RECURSIVE mergeUpdateNew(_, _, _, _)
mergeUpdateNew(version, upd, m, i) ==
    IF i > Len(upd) THEN [map |-> m, upd |-> upd]
    ELSE LET key == piholeEntryKey(upd[i]) IN
         IF version = "6" /\ key \in DOMAIN m
         THEN mergeUpdateNew(version,
                [upd EXCEPT ![m[key]].Targets = Compact(SortTargets(@ \o upd[i].Targets)),
                            ![m[key]].nilTargets = @ /\ Len(upd[i].Targets) = 0],
                m, i + 1)
         ELSE mergeUpdateNew(version, upd,
                [k \in DOMAIN m \cup {key} |-> IF k = key THEN i ELSE m[k]], i + 1)

Idle == ~ap.active /\ stack = <<>> /\ ~ret.set

\* mutant: the creates are applied before the deletes
phaseAfterCreatesFirst(p) ==
    CASE p = "idle" -> "create"
      [] p = "create" -> "delete"
      [] p = "delete" -> "updateOld"
      [] p = "updateOld" -> "updateNew"
      [] OTHER -> "done"

\* mutant: the surviving UpdateNew records are created before the records of
\* changes.Create
phaseAfterUpdatesFirst(p) ==
    CASE p = "idle" -> "delete"
      [] p = "delete" -> "updateOld"
      [] p = "updateOld" -> "updateNew"
      [] p = "updateNew" -> "create"
      [] OTHER -> "done"

\* the order of the loops of ApplyChanges
phaseAfter(p) ==
    CASE p = "idle" -> "delete"
      [] p = "delete" -> "updateOld"
      [] p = "updateOld" -> "create"
      [] p = "create" -> "updateNew"
      [] OTHER -> "done"

\* ApplyChanges is called with a ChangeSet
ApplyChanges ==
    /\ pc = "idle" /\ Idle
    /\ \E cs \in ChangeSets : changes' = cs
    /\ pc' = phaseAfter(pc) /\ idx' = 1
    /\ budget' = ProviderFaults
    /\ UNCHANGED <<others, srv, cfg, token, updateNew, pending, err, out, apiLog, ap, stack, ret, httpLog, op>>

\* for _, ep := range changes.Delete; after the loop the map updateNew is built
DeleteLoop ==
    /\ pc = "delete" /\ Idle
    /\ IF idx <= Len(changes.Delete)
       THEN /\ Call(MethodDelete, changes.Delete[idx], "Delete", idx)
            /\ UNCHANGED <<changes, updateNew>>
       ELSE LET m == mergeUpdateNew(cfg.APIVersion, changes.UpdateNew, EmptyMap, 1) IN
            /\ updateNew' = m.map
            /\ changes' = [changes EXCEPT !.UpdateNew = m.upd]
            /\ pc' = phaseAfter(pc) /\ idx' = 1
            /\ UNCHANGED <<err, apiLog, ap>>
    /\ UNCHANGED <<others, srv, cfg, token, pending, out, stack, ret, httpLog, op, budget>>

\* mutant: API version 6 compares the first targets only, like the older versions
sameTargetsFirstOnly(version, old, new) ==
    IF Len(old.Targets) = 0 \/ Len(new.Targets) = 0 THEN "panic"
    ELSE IF new.Targets[1] = old.Targets[1] THEN "same" ELSE "differ"

\* mutant: the comparison is inverted, equal targets are taken to differ
sameTargetsInverted(version, old, new) ==
    IF version = "6"
    THEN IF old.Targets # new.Targets \/ old.nilTargets # new.nilTargets
         THEN "same" ELSE "differ"
    ELSE IF Len(old.Targets) = 0 \/ Len(new.Targets) = 0 THEN "panic"
    ELSE IF new.Targets[1] # old.Targets[1] THEN "same" ELSE "differ"

\* the two target lists as the update loop compares them: cmp.Diff of the whole
\* lists for API version 6 (a nil list and an allocated empty list differ), the
\* first targets otherwise ("panic": an index out of range on an empty list)
sameTargets(version, old, new) ==
    IF version = "6"
    THEN IF old.Targets = new.Targets /\ old.nilTargets = new.nilTargets
         THEN "same" ELSE "differ"
    ELSE IF Len(old.Targets) = 0 \/ Len(new.Targets) = 0 THEN "panic"
    ELSE IF new.Targets[1] = old.Targets[1] THEN "same" ELSE "differ"

DeleteKey(m, key) == [k \in DOMAIN m \ {key} |-> m[k]]

\* for _, ep := range changes.UpdateOld
UpdateOldLoop ==
    /\ pc = "updateOld" /\ Idle
    /\ IF idx <= Len(changes.UpdateOld)
       THEN LET ep == changes.UpdateOld[idx]
                key == piholeEntryKey(ep)
            IN IF key \in DOMAIN updateNew
               THEN LET cmp == sameTargets(cfg.APIVersion, ep, changes.UpdateNew[updateNew[key]]) IN
                    IF cmp = "same"
                    THEN /\ updateNew' = DeleteKey(updateNew, key)
                         /\ idx' = idx + 1
                         /\ UNCHANGED <<pc, err, apiLog, ap>>
                    ELSE IF cmp = "panic"
                    THEN /\ pc' = "done" /\ err' = "panic"
                         /\ UNCHANGED <<updateNew, idx, apiLog, ap>>
                    ELSE /\ Call(MethodDelete, ep, "UpdateOld", idx)
                         /\ updateNew' = updateNew
               ELSE /\ idx' = idx + 1
                    /\ UNCHANGED <<updateNew, pc, err, apiLog, ap>>
       ELSE /\ pc' = phaseAfter(pc) /\ idx' = 1
            /\ UNCHANGED <<updateNew, err, apiLog, ap>>
    /\ UNCHANGED <<others, srv, cfg, token, changes, pending, out, stack, ret, httpLog, op, budget>>

\* for _, ep := range changes.Create
CreateLoop ==
    /\ pc = "create" /\ Idle
    /\ IF idx <= Len(changes.Create)
       THEN /\ Call(MethodPut, changes.Create[idx], "Create", idx)
            /\ pending' = pending
       ELSE /\ pc' = phaseAfter(pc) /\ idx' = 1
            /\ pending' = DOMAIN updateNew
            /\ UNCHANGED <<err, apiLog, ap>>
    /\ UNCHANGED <<others, srv, cfg, token, changes, updateNew, out, stack, ret, httpLog, op, budget>>

\* for _, ep := range updateNew: the map is visited in any order; return nil
UpdateNewLoop ==
    /\ pc = "updateNew" /\ Idle
    /\ IF pending # {}
       THEN \E key \in pending :
                /\ Call(MethodPut, changes.UpdateNew[updateNew[key]], "UpdateNew", updateNew[key])
                /\ pending' = pending \ {key}
       ELSE /\ pc' = phaseAfter(pc) /\ err' = "nil"
            /\ UNCHANGED <<pending, idx, apiLog, ap>>
    /\ UNCHANGED <<others, srv, cfg, token, changes, updateNew, out, stack, ret, httpLog, op, budget>>

\* ------------------------------------------------------------ piholeClientV6.listRecords
\* strings.FieldsFunc(rec, r == ' ' || r == ','): the fields of a line
Fields(line) == SelectSeq(line, LAMBDA x : x \notin {" ", ","})

\* the endpoint listRecords makes of one line, or the line is skipped
lineSkipped(recs, rtype) ==
    \/ Len(recs) < 2
    \/ rtype = RecordTypeA /\ ~isValidIPv4(recs[1])
    \/ rtype = RecordTypeAAAA /\ ~isValidIPv6(recs[1])

lineEndpoint(recs, rtype) ==
    IF rtype = RecordTypeCNAME
    THEN NewEndpointWithTTL(recs[1], rtype,
            IF Len(recs) = 3 /\ ParseTTL(recs[3]) >= 0 THEN ParseTTL(recs[3]) ELSE 0,
            <<recs[2]>>)
    ELSE NewEndpointWithTTL(recs[2], rtype, 0, <<recs[1]>>)

\* mutant: the endpoints are kept per line, not per DNS name
RECURSIVE listEndpointsPerLine(_, _, _, _)
listEndpointsPerLine(results, rtype, m, i) ==
    IF i > Len(results) THEN m
    ELSE LET recs == Fields(results[i]) IN
         IF lineSkipped(recs, rtype) THEN listEndpointsPerLine(results, rtype, m, i + 1)
         ELSE LET ep == lineEndpoint(recs, rtype)
                  key == ep.DNSName \o " " \o ep.Targets[1]
              IN listEndpointsPerLine(results, rtype,
                    [k \in DOMAIN m \cup {key} |-> IF k = key THEN ep ELSE m[k]], i + 1)

\* mutant: a later line of a name replaces the endpoint of the earlier lines
RECURSIVE listEndpointsLastWins(_, _, _, _)
listEndpointsLastWins(results, rtype, m, i) ==
    IF i > Len(results) THEN m
    ELSE LET recs == Fields(results[i]) IN
         IF lineSkipped(recs, rtype) THEN listEndpointsLastWins(results, rtype, m, i + 1)
         ELSE LET ep == lineEndpoint(recs, rtype)
                  name == ep.DNSName
              IN listEndpointsLastWins(results, rtype,
                    [k \in DOMAIN m \cup {name} |-> IF k = name THEN ep ELSE m[k]], i + 1)

\* the loop of listRecords over the lines from line i on: m is the map DNSName
\* -> endpoint so far; a name seen before keeps its targets and gets one more
RECURSIVE listEndpoints(_, _, _, _)
listEndpoints(results, rtype, m, i) ==
    IF i > Len(results) THEN m
    ELSE LET recs == Fields(results[i]) IN
         IF lineSkipped(recs, rtype) THEN listEndpoints(results, rtype, m, i + 1)
         ELSE LET ep == lineEndpoint(recs, rtype)
                  name == ep.DNSName
                  put == IF name \in DOMAIN m
                         THEN [ep EXCEPT !.Targets = Append(m[name].Targets, ep.Targets[1])]
                         ELSE ep
              IN listEndpoints(results, rtype,
                    [k \in DOMAIN m \cup {name} |-> IF k = name THEN put ELSE m[k]], i + 1)

\* the orders in which range visits the keys of a map
Orders(S) == { s \in [1..Cardinality(S) -> S] : \A i, j \in 1..Cardinality(S) : s[i] = s[j] => i = j }

\* getConfigValue after do(): the listed lines of the category, or an error
configValue(body, rtype) ==
    IF body.tag = "bad" THEN [err |-> "unmarshal", results |-> <<>>]
    ELSE [err |-> "nil",
          results |-> IF rtype = RecordTypeCNAME THEN body.cnames ELSE body.hosts]

\* ------------------------------------------------------------ PiholeProvider.Records
RecordCategories == <<RecordTypeA, RecordTypeAAAA, RecordTypeCNAME>>

\* Records is called
Records ==
    /\ pc = "idle" /\ Idle /\ cfg.APIVersion = "6"
    /\ pc' = "records" /\ idx' = 1
    /\ budget' = ProviderFaults
    /\ UNCHANGED <<others, srv, cfg, token, changes, updateNew, pending, err, out, apiLog, ap, stack,
                   ret, httpLog, op>>

\* listRecords of the next category: getConfigValue sends its GET through do()
ListRecords ==
    /\ pc = "records" /\ Idle
    /\ stack' = <<Frame(Request(MethodGet, urlForRecordType(RecordCategories[idx]), <<>>), 0)>>
    /\ op' = op + 1
    /\ UNCHANGED <<others, srv, cfg, token, changes, pc, idx, updateNew, pending, err, out, apiLog, ap,
                   ret, httpLog, budget>>

\* do() returned to getConfigValue: an error ends Records with no endpoints;
\* else the endpoints of the category are appended, and after the last
\* category Records returns them
ListReturn ==
    /\ pc = "records" /\ stack = <<>> /\ ret.set
    /\ ret' = NoRet
    /\ LET cv == IF ret.err # "nil" THEN [err |-> ret.err, results |-> <<>>]
                 ELSE configValue(ret.body, RecordCategories[idx])
           m == listEndpoints(cv.results, RecordCategories[idx], EmptyMap, 1)
       IN IF cv.err # "nil"
          THEN /\ pc' = "done" /\ err' = cv.err /\ out' = <<>> /\ idx' = idx
          ELSE /\ \E order \in Orders(DOMAIN m) :
                    out' = out \o [i \in 1..Len(order) |-> m[order[i]]]
               /\ idx' = idx + 1
               /\ pc' = IF idx = Len(RecordCategories) THEN "done" ELSE pc
               /\ err' = IF idx = Len(RecordCategories) THEN "nil" ELSE err
    /\ UNCHANGED <<others, srv, cfg, token, changes, updateNew, pending, apiLog, ap, stack, httpLog, op,
                   budget>>

\* ------------------------------------------------------------ client calls
ClientEndpoints ==
    Endpoints \cup
    { NewEndpointWithTTL("a.example.org", RecordTypeCNAME, 300, <<"h.example.org">>),
      NewEndpointWithTTL("*.example.org", RecordTypeTXT, 0, <<"1.1.1.1">>),
      NewEndpointWithTTL("*.example.org", RecordTypeA, 0, <<>>) }

\* createRecord or deleteRecord of the v6 client is called for one endpoint
ClientCall ==
    /\ pc = "idle" /\ Idle /\ cfg.APIVersion = "6"
    /\ \E method \in {MethodPut, MethodDelete}, ep \in ClientEndpoints :
        LET c == applyCheck(ep) IN
        /\ apiLog' = Append(apiLog, [method |-> method, ep |-> ep, src |-> "client", at |-> 1,
                res |-> IF c = "skip" THEN "nil" ELSE IF c = "soft" THEN "soft" ELSE "pending"])
        /\ ap' = IF c = "go" THEN [active |-> TRUE, action |-> method, ep |-> ep, ti |-> 1]
                 ELSE ap
        /\ pc' = IF c = "go" THEN "client" ELSE "done"
        /\ err' = IF c = "skip" THEN "nil" ELSE IF c = "soft" THEN "soft" ELSE err
    /\ budget' = ClientFaults
    /\ UNCHANGED <<others, srv, cfg, token, changes, idx, updateNew, pending, out, stack, ret, httpLog, op>>

Next ==
    \/ ApplyChanges
    \/ DeleteLoop
    \/ UpdateOldLoop
    \/ CreateLoop
    \/ UpdateNewLoop
    \/ ApplyTarget
    \/ ApplyReturn
    \/ DoSend
    \/ Introspect
    \/ RefreshReturn

Spec == Init /\ [][Next]_vars

\* the v6 client on its own: with a token, with a password but no token (the
\* token answer at construction carried no session id), without password
InitClient ==
    /\ \E c \in {<<TRUE, 1>>, <<TRUE, 0>>, <<FALSE, 0>>} :
        /\ cfg = Config("6", FALSE, IncludeExampleOrg, c[1])
        /\ token = c[2]
    /\ InitIdle

NextClient ==
    \/ Records
    \/ ListRecords
    \/ ListReturn
    \/ ClientCall
    \/ ApplyTarget
    \/ ApplyReturn
    \/ DoSend
    \/ Introspect
    \/ RefreshReturn

SpecClient == InitClient /\ [][NextClient]_vars

\* ------------------------------------------------------------ reading the logs
ApiCalls == 1..Len(apiLog)
Sent == 1..Len(httpLog)

\* the list of the ChangeSet on whose behalf request k was sent
SrcOf(k) == apiLog[httpLog[k].call].src

KeyOfCall(i) == piholeEntryKey(apiLog[i].ep)

\* request k creates/deletes target t of endpoint ep
IsTargetCall(k, method, ep, t) ==
    /\ httpLog[k].req.method = method
    /\ httpLog[k].req.path = urlForRecordType(ep.RecordType)
    /\ httpLog[k].req.param = TargetRequest(method, ep, t).param

\* a backend call was issued for every target of record at of list src
Issued(method, ep, src, at) ==
    \A t \in 1..Len(ep.Targets) :
        \E k \in Sent :
            /\ IsTargetCall(k, method, ep, ep.Targets[t])
            /\ apiLog[httpLog[k].call].src = src
            /\ apiLog[httpLog[k].call].at = at

ListRank(src) ==
    CASE src = "Delete" -> 1 [] src = "UpdateOld" -> 2 [] src = "Create" -> 3 [] OTHER -> 4

\* record at2 of list src2 is handled after record at1 of list src1
Later(src1, at1, src2, at2) ==
    \/ ListRank(src1) < ListRank(src2)
    \/ src1 = src2 /\ at1 < at2

InScopeValid(ep) == applyCheck(ep) = "go"

AppliedV6 == pc = "done" /\ cfg.APIVersion = "6" /\ changes # NoChanges

\* ------------------------------------------------------------ C1
\* C1 (as claimed): a record rejected with a soft error does not abort the
\* batch: once ApplyChanges has returned, every in-scope valid record of Delete
\* or Create that comes after the rejected record has had its backend calls.
C1_SoftErrorKeepsBatch ==
    AppliedV6 =>
        \A i \in ApiCalls : apiLog[i].res = "soft" =>
            /\ \A j \in 1..Len(changes.Delete) :
                (Later(apiLog[i].src, apiLog[i].at, "Delete", j) /\ InScopeValid(changes.Delete[j]))
                    => Issued(MethodDelete, changes.Delete[j], "Delete", j)
            /\ \A j \in 1..Len(changes.Create) :
                (Later(apiLog[i].src, apiLog[i].at, "Create", j) /\ InScopeValid(changes.Create[j]))
                    => Issued(MethodPut, changes.Create[j], "Create", j)

\* ------------------------------------------------------------ C2
\* C2: the calls for the records of changes.Delete come first: no call (of
\* deleteRecord/createRecord, or HTTP request) made for an UpdateOld, Create or
\* UpdateNew record precedes one made for a Delete record, and when such a call
\* is made every record of changes.Delete has been handed to deleteRecord.
C2_DeletesFirst ==
    /\ \A i, j \in ApiCalls : (i < j /\ apiLog[j].src = "Delete") => apiLog[i].src = "Delete"
    /\ \A k, l \in Sent : (k < l /\ SrcOf(l) = "Delete") => SrcOf(k) = "Delete"
    /\ (\E i \in ApiCalls : apiLog[i].src \in {"UpdateOld", "Create", "UpdateNew"})
        => \A j \in 1..Len(changes.Delete) :
              \E i \in ApiCalls : apiLog[i].src = "Delete" /\ apiLog[i].at = j

C2_Witness ==
    /\ AppliedV6 /\ err = "nil"
    /\ \E k1, k2, k3, k4 \in Sent :
        /\ k1 < k2 /\ k2 < k3 /\ k3 < k4
        /\ SrcOf(k1) = "Delete" /\ httpLog[k1].req.method = MethodDelete
        /\ SrcOf(k2) = "UpdateOld" /\ httpLog[k2].req.method = MethodDelete
        /\ SrcOf(k3) = "Create" /\ httpLog[k3].req.method = MethodPut
        /\ SrcOf(k4) = "UpdateNew" /\ httpLog[k4].req.method = MethodPut

\* ------------------------------------------------------------ C3
\* the UpdateNew record with the Entry Key of old, when the key occurs once
PairOf(i) ==
    { j \in 1..Len(changes.UpdateNew) :
        piholeEntryKey(changes.UpdateNew[j]) = piholeEntryKey(changes.UpdateOld[i]) }

\* every delete made for UpdateOld record i precedes every create made for
\* UpdateNew record j
DeleteBeforeCreate(i, j) ==
    /\ \A a, b \in ApiCalls :
        ( /\ apiLog[a].src = "UpdateOld" /\ apiLog[a].at = i
          /\ apiLog[b].src = "UpdateNew" /\ apiLog[b].at = j ) => a < b
    /\ \A k, l \in Sent :
        ( /\ SrcOf(k) = "UpdateOld" /\ apiLog[httpLog[k].call].at = i
          /\ SrcOf(l) = "UpdateNew" /\ apiLog[httpLog[l].call].at = j ) => k < l

\* C3 (as claimed): once ApplyChanges has returned, every UpdateOld/UpdateNew
\* pair of one Entry Key whose targets differ has had the delete calls of the
\* old record and the create calls of the new record, deletes before creates.
C3_UpdateAlwaysReplaces ==
    AppliedV6 =>
        \A i \in 1..Len(changes.UpdateOld) : \A j \in PairOf(i) :
            changes.UpdateOld[i].Targets # changes.UpdateNew[j].Targets =>
                /\ Issued(MethodDelete, changes.UpdateOld[i], "UpdateOld", i)
                /\ Issued(MethodPut, changes.UpdateNew[j], "UpdateNew", j)
                /\ DeleteBeforeCreate(i, j)

\* C3 (amended): for an UpdateOld/UpdateNew pair of one Entry Key, every delete
\* call of the old record precedes every create call of the new record; and
\* when ApplyChanges returns nil and the update is not suppressed (API version
\* 6: the target lists differ; older: the first targets differ), deleteRecord
\* was called for the old and createRecord for the new record, and with the
\* v6 client, DryRun off and both records in scope and valid, one DELETE per
\* target of the old and one PUT per target of the new record was sent.
C3_UpdateReplaces ==
    \A i \in 1..Len(changes.UpdateOld) : \A j \in PairOf(i) :
        /\ DeleteBeforeCreate(i, j)
        /\ ( /\ pc = "done" /\ err = "nil"
             /\ IF cfg.APIVersion = "6"
                THEN changes.UpdateOld[i].Targets # changes.UpdateNew[j].Targets
                ELSE changes.UpdateOld[i].Targets[1] # changes.UpdateNew[j].Targets[1] )
           => /\ \E a \in ApiCalls :
                    /\ apiLog[a].method = MethodDelete /\ apiLog[a].src = "UpdateOld"
                    /\ apiLog[a].ep = changes.UpdateOld[i]
              /\ \E b \in ApiCalls :
                    /\ apiLog[b].method = MethodPut /\ apiLog[b].src = "UpdateNew"
                    /\ apiLog[b].ep = changes.UpdateNew[j]
              /\ ( /\ cfg.APIVersion = "6" /\ ~cfg.DryRun
                   /\ InScopeValid(changes.UpdateOld[i]) /\ InScopeValid(changes.UpdateNew[j]) )
                 => /\ Issued(MethodDelete, changes.UpdateOld[i], "UpdateOld", i)
                    /\ Issued(MethodPut, changes.UpdateNew[j], "UpdateNew", j)

C3_Witness ==
    /\ AppliedV6 /\ err = "nil"
    /\ Len(changes.UpdateOld) = 1 /\ Len(changes.UpdateNew) = 1
    /\ changes.UpdateOld[1].Targets = <<"1.1.1.1">>
    /\ changes.UpdateNew[1].Targets = <<"1.1.1.1", "2.2.2.2">>
    /\ \E k, l \in Sent :
        /\ k < l
        /\ SrcOf(k) = "UpdateOld" /\ httpLog[k].req.method = MethodDelete
        /\ SrcOf(l) = "UpdateNew" /\ httpLog[l].req.method = MethodPut

\* ------------------------------------------------------------ C4
\* C4: no-op suppression: for an UpdateOld and an UpdateNew record of one
\* Entry Key with identical targets, no HTTP request is made on behalf of the
\* update, for API version 6 and older, and no createRecord/deleteRecord call
\* either (but for two lists without targets of which one only is nil: the
\* calls are made and send nothing).
C4_NoOpSuppressed ==
    \A i \in 1..Len(changes.UpdateOld) : \A j \in PairOf(i) :
        changes.UpdateOld[i].Targets = changes.UpdateNew[j].Targets =>
            /\ \A a \in ApiCalls :
                (/\ apiLog[a].src \in {"UpdateOld", "UpdateNew"}
                 /\ changes.UpdateOld[i].nilTargets = changes.UpdateNew[j].nilTargets)
                    => KeyOfCall(a) # piholeEntryKey(changes.UpdateOld[i])
            /\ \A k \in Sent :
                SrcOf(k) \in {"UpdateOld", "UpdateNew"}
                    => KeyOfCall(httpLog[k].call) # piholeEntryKey(changes.UpdateOld[i])

C4_Witness ==
    /\ pc = "done" /\ err = "nil" /\ cfg.APIVersion # "6"
    /\ Len(changes.UpdateOld) = 1 /\ Len(changes.UpdateNew) = 1
    /\ InScopeValid(changes.UpdateOld[1])
    /\ changes.UpdateOld[1].Targets = <<"1.1.1.1", "2.2.2.2">>
    /\ changes.UpdateNew[1].Targets = <<"1.1.1.1", "2.2.2.2">>
    /\ Len(changes.Create) = 1 /\ Len(apiLog) = 1

\* ------------------------------------------------------------ C5
\* C5: with the v6 client, createRecord/deleteRecord of a record whose name
\* does not match the DomainFilter sends no HTTP request and returns nil, and
\* ApplyChanges goes on: it never returns an error from such a record.
C5_OutOfScopeSkipped ==
    cfg.APIVersion = "6" =>
        /\ \A i \in ApiCalls : ~matched[cfg.DomainFilter, apiLog[i].ep.DNSName] =>
            /\ apiLog[i].res = "nil"
            /\ \A k \in Sent : httpLog[k].call # i
        /\ ( /\ pc = "done" /\ apiLog # <<>>
             /\ ~matched[cfg.DomainFilter, Last(apiLog).ep.DNSName] ) => err = "nil"

C5_Witness ==
    /\ AppliedV6 /\ err = "nil"
    /\ \E i, j \in ApiCalls :
        /\ i < j
        /\ ~matched[cfg.DomainFilter, apiLog[i].ep.DNSName]
        /\ apiLog[i].ep.RecordType = RecordTypeCNAME /\ Len(apiLog[i].ep.Targets) = 2
        /\ \E k \in Sent : httpLog[k].call = j

\* ------------------------------------------------------------ C6
\* C6 (as claimed): every endpoint Records returns has a DNSName that matches
\* the configured DomainFilter.
C6_RecordsDomainFiltered ==
    (pc = "done" /\ err = "nil") =>
        \A i \in 1..Len(out) : matched[cfg.DomainFilter, out[i].DNSName]

\* ------------------------------------------------------------ reading the HTTP log
IsAuth(k) == httpLog[k].req.path = apiAuthPath
\* request k is the request of its do() operation, not one of the renewal
IsOrig(k) == ~IsAuth(k) /\ httpLog[k].depth = 1
IsIntrospect(k) == IsAuth(k) /\ httpLog[k].req.method = MethodGet
IsTokenRequest(k) == IsAuth(k) /\ httpLog[k].req.method = MethodPost
SameOp(k, l) == httpLog[k].op = httpLog[l].op
FirstOfOp(k) == \A m \in 1..(k - 1) : ~SameOp(m, k)
SameRequest(k, l) ==
    /\ httpLog[k].req.method = httpLog[l].req.method
    /\ httpLog[k].req.path = httpLog[l].req.path
    /\ httpLog[k].req.param = httpLog[l].req.param
IsSuccessStatus(r) == r.status \in {StatusOK, StatusCreated, StatusNoContent}

Answered401(k) ==
    /\ httpLog[k].token # 0
    /\ httpLog[k].resp.status = StatusUnauthorized /\ httpLog[k].resp.tag = "error"
ReportedInvalid(k) ==
    IsIntrospect(k) /\ httpLog[k].resp.tag = "session" /\ ~httpLog[k].resp.valid
ReportedValid(k) ==
    IsIntrospect(k) /\ httpLog[k].resp.tag = "session" /\ httpLog[k].resp.valid
RefreshSucceeded(k) ==
    /\ IsTokenRequest(k) /\ IsSuccessStatus(httpLog[k].resp)
    /\ httpLog[k].resp.tag = "session" /\ httpLog[k].resp.sid

\* the first request of an operation is answered 401, introspection reports the
\* token invalid, the refresh succeeds and the new token is reported valid
RenewedOnce(k) ==
    /\ k + 3 <= Len(httpLog)
    /\ IsOrig(k) /\ FirstOfOp(k) /\ Answered401(k)
    /\ ReportedInvalid(k + 1)
    /\ RefreshSucceeded(k + 2)
    /\ ReportedValid(k + 3)

\* the sends of the original request of operation o
OrigSends(o) == {k \in Sent : httpLog[k].op = o /\ IsOrig(k)}

\* ------------------------------------------------------------ C7
\* C7: after 401, token reported invalid, successful refresh and new token
\* reported valid, the client sends the original request again, with the new
\* token, exactly once more; when that retry is answered with a success
\* status, do() returns success to its caller and the operation sends nothing more.
C7_RenewAndRetryOnce ==
    \A k \in Sent : RenewedOnce(k) =>
        /\ Len(httpLog) = k + 3 =>
            /\ stack # <<>> /\ Top.pc = "send"
            /\ Top.req.method = httpLog[k].req.method
            /\ Top.req.path = httpLog[k].req.path
            /\ Top.req.param = httpLog[k].req.param
        /\ Len(httpLog) >= k + 4 =>
            /\ SameRequest(k + 4, k) /\ SameOp(k + 4, k) /\ IsOrig(k + 4)
            /\ httpLog[k + 4].token = httpLog[k].token + 1
            /\ IsSuccessStatus(httpLog[k + 4].resp) =>
                /\ httpLog[k + 4].result = "nil"
                /\ Cardinality(OrigSends(httpLog[k].op)) = 2
                /\ \A m \in Sent : m > k + 4 => ~SameOp(m, k)
                /\ Len(httpLog) = k + 4 =>
                    /\ stack # <<>> => op > httpLog[k].op
                    /\ ret.set => ret.err = "nil"
                    /\ (pc = "done" /\ httpLog[k].req.method # MethodGet
                            /\ op = httpLog[k].op) => err = "nil"

C7_Witness ==
    /\ Len(httpLog) = 5 /\ RenewedOnce(1)
    /\ httpLog[5].req.method = MethodPut /\ IsSuccessStatus(httpLog[5].resp)
    /\ pc = "done" /\ err = "nil"

\* ------------------------------------------------------------ C8, C9
CycleKind(k) ==
    IF IsOrig(k) THEN IF Answered401(k) THEN "orig401" ELSE "origOther"
    ELSE IF ReportedInvalid(k) THEN "invalid"
    ELSE IF ReportedValid(k) THEN "valid"
    ELSE IF RefreshSucceeded(k) THEN "refreshed"
    ELSE "other"

CycleNext(kind) ==
    CASE kind = "orig401" -> {"invalid"}
      [] kind = "invalid" -> {"refreshed"}
      [] kind = "refreshed" -> {"valid"}
      [] kind = "valid" -> {"orig401", "origOther"}
      [] OTHER -> {}

\* operation o consists of renew-and-retry cycles only: 401, token reported
\* invalid, refresh succeeds, token reported valid, original request re-sent
OnlyRenewCycles(o) ==
    \A k \in Sent : (k + 1 \in Sent /\ httpLog[k].op = o /\ httpLog[k + 1].op = o)
        => CycleKind(k + 1) \in CycleNext(CycleKind(k))

\* C8 (as claimed): when the renew-and-retry cycle keeps repeating, the
\* original call is sent at most 1 + 3 times in one operation.
C8_RenewCyclesBounded ==
    \A o \in 1..op : OnlyRenewCycles(o) => Cardinality(OrigSends(o)) <= 1 + maxRetries

\* in operation o every introspection reports the token valid
AlwaysReportedValid(o) ==
    \A k \in Sent : (httpLog[k].op = o /\ ~IsOrig(k)) => ReportedValid(k)

\* C9 (as claimed): when every 401 is followed by an introspection reporting
\* the token valid, the original call is sent at most 1 + 3 times in one
\* operation.
C9_ValidTokenRetriesBounded ==
    \A o \in 1..op : AlwaysReportedValid(o) => Cardinality(OrigSends(o)) <= 1 + maxRetries

\* ------------------------------------------------------------ C10
\* a success status, a 404 error envelope for a DELETE, or an "Item already
\* present" error envelope for a PUT
IsBenign(k) ==
    \/ IsSuccessStatus(httpLog[k].resp)
    \/ /\ httpLog[k].req.method = MethodDelete
       /\ httpLog[k].resp.status = StatusNotFound /\ httpLog[k].resp.tag = "error"
    \/ httpLog[k].req.method = MethodPut /\ httpLog[k].resp.tag = "present"

\* a success status, any answer with status 404 to a DELETE, or an "Item
\* already present" error envelope for a PUT
IsBenignAnyBody(k) ==
    \/ IsSuccessStatus(httpLog[k].resp)
    \/ httpLog[k].req.method = MethodDelete /\ httpLog[k].resp.status = StatusNotFound
    \/ httpLog[k].req.method = MethodPut /\ httpLog[k].resp.tag = "present"

\* C10 (as claimed): do() returns success for every DELETE answered with
\* status 404 and for a PUT answered with an "Item already present" error, and
\* an ApplyChanges all of whose requests got such answers or success statuses
\* returns no error of a backend call.
C10_Every404DeleteSucceeds ==
    /\ \A k \in Sent : (IsOrig(k) /\ IsBenignAnyBody(k)) => httpLog[k].result = "nil"
    /\ (AppliedV6 /\ \A k \in Sent : IsBenignAnyBody(k)) => err \in {"nil", "soft"}

\* C10 (amended): do() returns success for a DELETE answered with status 404
\* and a body that parses as an error envelope, and for a PUT answered with an
\* "Item already present" error envelope, and an ApplyChanges all of whose
\* requests got such answers or success statuses returns no error of a
\* backend call; a 404 whose body does not parse is an unmarshal error.
C10_IdempotentResponsesSucceed ==
    /\ \A k \in Sent :
          ( /\ IsOrig(k) /\ httpLog[k].req.method = MethodDelete
            /\ httpLog[k].resp.status = StatusNotFound /\ httpLog[k].resp.tag = "bad" )
          => httpLog[k].result = "unmarshal"
    /\ \A k \in Sent : (IsOrig(k) /\ IsBenign(k)) => httpLog[k].result = "nil"
    /\ (AppliedV6 /\ \A k \in Sent : IsBenign(k)) => err \in {"nil", "soft"}

C10_Witness ==
    /\ AppliedV6 /\ err = "nil"
    /\ \E k, l \in Sent :
        /\ httpLog[k].req.method = MethodDelete /\ httpLog[k].resp.status = StatusNotFound
        /\ httpLog[k].resp.tag = "error" /\ httpLog[k].result = "nil"
        /\ httpLog[l].req.method = MethodPut /\ httpLog[l].resp.tag = "present"

\* ------------------------------------------------------------ C11
\* request k went through do(): every request but the introspection, which
\* checkTokenValidity sends itself
ThroughDo(k) == ~IsIntrospect(k)

\* C11 (as claimed): an answer whose status is not 200/201/204 makes do()
\* return success only for an "Item already present" answer to a create (PUT)
\* and for a 404 answer to a DELETE.
C11_OnlySpecialCasesSucceed ==
    \A k \in Sent :
        ( /\ ThroughDo(k)
          /\ httpLog[k].resp.status # 0
          /\ ~IsSuccessStatus(httpLog[k].resp)
          /\ httpLog[k].result = "nil" )
        => \/ httpLog[k].req.method = MethodPut /\ httpLog[k].resp.tag = "present"
           \/ httpLog[k].req.method = MethodDelete /\ httpLog[k].resp.status = StatusNotFound

\* ------------------------------------------------------------ concurrent passes
\* Two goroutines call do() on one piholeClientV6.  Nothing guards p.token:
\* each step below is one access to the field, the sending of a request or
\* the arrival of its answer, so that a step of one pass can fall between any
\* two of the other.
Passes == {1, 2}

\* what a racing read of the string p.token may yield besides a whole value
TornToken == 0 - 1

\* the request each pass brings to do()
PassRequest ==
    TargetRequest(MethodPut, NewEndpointWithTTL("a.example.org", RecordTypeA, 0, <<"1.1.1.1">>),
                  "1.1.1.1")

\* one invocation of do() by a pass: hdr is the X-FTL-SID value of the request
\* in flight, resp the answer that has arrived and is not yet classified
PassFrame(req, redo) ==
    [req |-> req, pc |-> "send", tryCount |-> 0, redo |-> redo, hdr |-> 0, resp |-> NoExchange]

\* a pass: its do() invocations, what the last one returned, the session id
\* retrieveNewToken has parsed and not yet stored (sid), and the one it has
\* stored and not yet read back (got)
StartPass == [stack |-> <<PassFrame(PassRequest, 0)>>, ret |-> NoRet, sid |-> 0, got |-> 0]

Pass(p) == conc.pass[p]
SetPass(p, f) == [conc EXCEPT !.pass[p] = f]
PassTop(p) == Pass(p).stack[Len(Pass(p).stack)]
SetPassTop(f, t) == [f EXCEPT !.stack[Len(f.stack)] = t]
PassAt(p, where) == Pass(p).stack # <<>> /\ PassTop(p).pc = where

\* the values a read of p.token by pass p can observe: the field, or, while
\* another pass is storing into it, that pass's value or a torn one
ReadToken(p) ==
    {token} \cup UNION { {Pass(q).sid, TornToken} :
                            q \in {q \in Passes : q # p /\ PassAt(q, "assign")} }

\* the invocation on top returns (jRes, err) to its caller
PassReturn(f, e, body) ==
    [f EXCEPT !.stack = Front(@), !.ret = [set |-> TRUE, err |-> e, body |-> body]]

\* after the renewal loop of a pass: the error, or do(req) again
PassAfterLoop(f, tc) ==
    LET t == f.stack[Len(f.stack)] IN
    IF afterLoop(tc) = "maxtries" THEN {PassReturn(f, "maxtries", NoExchange)}
    ELSE IF t.redo < MaxPassRedo THEN {SetPassTop(f, PassFrame(t.req, t.redo + 1))}
    ELSE {}

\* the renewal loop after retrieveNewToken returned nil: tryCount++ and continue
PassNextTry(f) ==
    LET t == f.stack[Len(f.stack)] IN
    IF t.tryCount + 1 <= maxRetries
    THEN {SetPassTop(f, [t EXCEPT !.pc = "loop", !.tryCount = @ + 1])}
    ELSE PassAfterLoop(f, t.tryCount + 1)

\* do(): the pass reads p.token into the header and hands the request to
\* httpClient.Do
PassSend ==
    \E p \in Passes :
        /\ PassAt(p, "send")
        /\ \E t \in ReadToken(p) :
            conc' = SetPass(p, [SetPassTop(Pass(p),
                                    [PassTop(p) EXCEPT !.pc = "inflight", !.hdr = t])
                                  EXCEPT !.got = 0])
        /\ UNCHANGED <<cfg, token, changes, pc, idx, updateNew, pending, err, out, apiLog,
                       ap, stack, ret, httpLog, op, budget, srv, filt, gw>>

\* httpClient.Do and io.ReadAll of the pass return: the answer has arrived; an
\* answer to the token request that carries a session id carries a fresh one
PassAnswer ==
    \E p \in Passes :
        /\ PassAt(p, "inflight")
        /\ \E r \in OrigResponses(PassTop(p).req) :
            LET f == SetPassTop(Pass(p), [PassTop(p) EXCEPT !.pc = "answered", !.hdr = 0,
                                                             !.resp = r]) IN
            /\ Spend(PassTop(p).req, r)
            /\ IF r.tag = "session" /\ r.sid
               THEN conc' = [SetPass(p, [f EXCEPT !.sid = conc.issued + 1])
                               EXCEPT !.issued = @ + 1]
               ELSE conc' = SetPass(p, f)
        /\ UNCHANGED <<cfg, token, changes, pc, idx, updateNew, pending, err, out, apiLog,
                       ap, stack, ret, httpLog, op, srv, filt, gw>>

\* do() classifies the answer; on a 401 it reads p.token again and enters the
\* renewal loop if it finds one
PassClassify ==
    \E p \in Passes :
        /\ PassAt(p, "answered")
        /\ \E t \in ReadToken(p) :
            LET res == doResult(PassTop(p).req, PassTop(p).resp, t) IN
            conc' = SetPass(p,
                IF res = "renew"
                THEN SetPassTop(Pass(p), [PassTop(p) EXCEPT !.pc = "loop", !.tryCount = 1,
                                                             !.resp = NoExchange])
                ELSE PassReturn(Pass(p), res, PassTop(p).resp))
        /\ UNCHANGED <<cfg, token, changes, pc, idx, updateNew, pending, err, out, apiLog,
                       ap, stack, ret, httpLog, op, budget, srv, filt, gw>>

\* checkTokenValidity of the pass: it reads p.token into the header and sends
\* the introspection request (without a token it answers at once)
PassIntrospect ==
    \E p \in Passes :
        /\ PassAt(p, "loop")
        /\ \E t \in ReadToken(p) :
            conc' = SetPass(p, [SetPassTop(Pass(p),
                                    IF t = 0
                                    THEN [PassTop(p) EXCEPT !.pc = "introspected"]
                                    ELSE [PassTop(p) EXCEPT !.pc = "introspecting", !.hdr = t])
                                  EXCEPT !.got = 0])
        /\ UNCHANGED <<cfg, token, changes, pc, idx, updateNew, pending, err, out, apiLog,
                       ap, stack, ret, httpLog, op, budget, srv, filt, gw>>

\* the introspection request is answered
PassIntrospectAnswer ==
    \E p \in Passes :
        /\ PassAt(p, "introspecting")
        /\ \E r \in IntrospectResponses :
            /\ Spend(IntrospectRequest, r)
            /\ conc' = SetPass(p, SetPassTop(Pass(p),
                            [PassTop(p) EXCEPT !.pc = "introspected", !.hdr = 0, !.resp = r]))
        /\ UNCHANGED <<cfg, token, changes, pc, idx, updateNew, pending, err, out, apiLog,
                       ap, stack, ret, httpLog, op, srv, filt, gw>>

\* checkTokenValidity has returned: an error ends do(), a valid token ends the
\* loop, an invalid one makes retrieveNewToken send the token request through
\* do()
PassIntrospected ==
    \E p \in Passes :
        /\ PassAt(p, "introspected")
        /\ LET v == checkTokenValidity(PassTop(p).resp)
               f == SetPassTop(Pass(p), [PassTop(p) EXCEPT !.resp = NoExchange])
           IN \E g \in ( IF v = "valid" THEN PassAfterLoop(f, PassTop(p).tryCount)
                         ELSE IF v = "invalid"
                         THEN IF cfg.Password
                              THEN IF Len(f.stack) < MaxDepth
                                   THEN {[SetPassTop(f, [PassTop(p) EXCEPT !.pc = "refresh",
                                                                !.resp = NoExchange])
                                            EXCEPT !.stack = Append(@, PassFrame(TokenRequest, 0)),
                                                   !.ret = NoRet]}
                                   ELSE {}
                              ELSE PassNextTry(f)
                         ELSE {PassReturn(f, v, NoExchange)} ) :
                conc' = SetPass(p, g)
        /\ UNCHANGED <<cfg, token, changes, pc, idx, updateNew, pending, err, out, apiLog,
                       ap, stack, ret, httpLog, op, budget, srv, filt, gw>>

\* retrieveNewToken after its do() returned: an error is passed on; the
\* session id of a parsable answer that carries one is about to be stored;
\* any other answer stores nothing and the loop goes on with the token as it is
PassAcquired ==
    \E p \in Passes :
        /\ PassAt(p, "refresh") /\ Pass(p).ret.set
        /\ LET f == [Pass(p) EXCEPT !.ret = NoRet] IN
           \E g \in ( IF Pass(p).ret.err # "nil"
                      THEN {PassReturn(f, Pass(p).ret.err, NoExchange)}
                      ELSE IF newToken(Pass(p).ret.body, 0) # 0
                      THEN {SetPassTop(f, [PassTop(p) EXCEPT !.pc = "assign"])}
                      ELSE PassNextTry([f EXCEPT !.sid = 0]) ) :
                conc' = SetPass(p, g)
        /\ UNCHANGED <<cfg, token, changes, pc, idx, updateNew, pending, err, out, apiLog,
                       ap, stack, ret, httpLog, op, budget, srv, filt, gw>>

\* p.token = apiResponse.Session.SID, then tryCount++ and the loop goes on
PassAssign ==
    \E p \in Passes :
        /\ PassAt(p, "assign")
        /\ token' = Pass(p).sid
        /\ \E g \in PassNextTry([Pass(p) EXCEPT !.got = Pass(p).sid, !.sid = 0]) :
                conc' = SetPass(p, g)
        /\ UNCHANGED <<cfg, changes, pc, idx, updateNew, pending, err, out, apiLog,
                       ap, stack, ret, httpLog, op, budget, srv, filt, gw>>

\* two passes start do() on a client that holds the token issued first
InitConcurrent ==
    /\ cfg = Config("6", FALSE, IncludeExampleOrg, TRUE)
    /\ token = 1
    /\ changes = NoChanges
    /\ pc = "idle" /\ idx = 0
    /\ updateNew = EmptyMap /\ pending = {}
    /\ err = "none" /\ out = <<>>
    /\ apiLog = <<>> /\ ap = NoApply
    /\ stack = <<>> /\ ret = NoRet /\ httpLog = <<>> /\ op = 0
    /\ budget = ClientFaults
    /\ srv = Untracked /\ filt = NoFilter /\ gw = NoGateway
    /\ conc = [pass |-> [p \in Passes |-> StartPass], issued |-> 1]

NextConcurrent ==
    \/ PassSend
    \/ PassAnswer
    \/ PassClassify
    \/ PassIntrospect
    \/ PassIntrospectAnswer
    \/ PassIntrospected
    \/ PassAcquired
    \/ PassAssign

SpecConcurrent == InitConcurrent /\ [][NextConcurrent]_vars

\* ------------------------------------------------------------ C12
\* passes whose token acquisition is in progress: retrieveNewToken entered,
\* not yet returned
Acquiring ==
    {p \in Passes : \E i \in 1..Len(Pass(p).stack) : Pass(p).stack[i].pc \in {"refresh", "assign"}}

\* C12 (as claimed): at most one token acquisition is in progress at any
\* time, and a token a pass has obtained and not yet used is still the
\* client's token.
C12_RefreshSerialized ==
    conc # NoPasses =>
        /\ Cardinality(Acquiring) <= 1
        /\ \A p \in Passes : Pass(p).got # 0 => token = Pass(p).got

\* ------------------------------------------------------------ ApplyChanges run twice
\* the records the backend holds for an endpoint: one per target
BackendRecords(ep) ==
    { RequestRecord(TargetRequest(MethodPut, ep, ep.Targets[i])) : i \in 1..Len(ep.Targets) }

InitialBackends ==
    {{}} \cup { BackendRecords(NewEndpointWithTTL("a.example.org", RecordTypeA, 0, ts)) :
                    ts \in TargetLists }

\* the v6 provider in front of a backend that keeps its records
InitRerun ==
    /\ cfg = Config("6", FALSE, IncludeExampleOrg, TRUE)
    /\ token = 1
    /\ InitProvider /\ conc = NoPasses /\ filt = NoFilter /\ gw = NoGateway
    /\ \E b \in InitialBackends :
        srv = [tracked |-> TRUE, records |-> b, initial |-> b, run |-> 1]

\* ApplyChanges is called again with the ChangeSet of the run that has
\* returned; this time the backend answers every request truthfully
ApplyAgain ==
    /\ pc = "done" /\ Idle /\ srv.tracked /\ srv.run = 1
    /\ srv' = [srv EXCEPT !.run = 2]
    /\ pc' = phaseAfter("idle") /\ idx' = 1
    /\ err' = "none" /\ updateNew' = EmptyMap /\ pending' = {}
    /\ apiLog' = <<>> /\ httpLog' = <<>>
    /\ budget' = 0
    /\ UNCHANGED <<others, cfg, token, changes, out, ap, stack, ret, op>>

NextRerun ==
    \/ ApplyChanges
    \/ ApplyAgain
    \/ DeleteLoop
    \/ UpdateOldLoop
    \/ CreateLoop
    \/ UpdateNewLoop
    \/ ApplyTarget
    \/ ApplyReturn
    \/ DoSend
    \/ Introspect
    \/ RefreshReturn

SpecRerun == InitRerun /\ [][NextRerun]_vars

\* the backend's records after it has carried out the requests log[i..] on b
RECURSIVE Replay(_, _, _)
Replay(log, i, b) ==
    IF i > Len(log) THEN b
    ELSE Replay(log, i + 1, Effect(log[i].req, b))

\* the second run has returned
RerunDone == srv.tracked /\ srv.run = 2 /\ pc = "done"

\* ------------------------------------------------------------ C13
\* C13 (as claimed): a second ApplyChanges with the same ChangeSet, meeting no
\* hard error, returns success and leaves the backend with the records one
\* complete run on the initial backend produces.
C13_RerunSucceeds ==
    RerunDone =>
        /\ err = "nil"
        /\ srv.records = Replay(httpLog, 1, srv.initial)

\* the part of C13 that holds of the code: unless the ChangeSet holds a record
\* apply() rejects, the second run returns nil and the backend ends as after
\* one complete run
C13_RerunIdempotentIfAccepted ==
    RerunDone =>
        /\ err \in {"nil", "soft"}
        /\ srv.records = Replay(httpLog, 1, srv.initial)
        /\ err = "soft" =>
             \E ep \in Range(changes.Create) \cup Range(changes.Delete)
                        \cup Range(changes.UpdateOld) \cup Range(changes.UpdateNew) :
                applyCheck(ep) = "soft"

\* ------------------------------------------------------------ the provider: ApplyChanges or Records
NextProvider ==
    \/ ApplyChanges
    \/ DeleteLoop
    \/ UpdateOldLoop
    \/ CreateLoop
    \/ UpdateNewLoop
    \/ ApplyTarget
    \/ ApplyReturn
    \/ Records
    \/ ListRecords
    \/ ListReturn
    \/ DoSend
    \/ Introspect
    \/ RefreshReturn

SpecProvider == Init /\ [][NextProvider]_vars

\* ------------------------------------------------------------ C14
\* the errors of a backend call that are not soft errors
HardErrors == {"transport", "unmarshal", "status", "maxtries"}

\* C14: a hard error of a backend call ends the invocation.  The request that
\* failed is the last one sent and the call of createRecord/deleteRecord that
\* failed is the last one made; once the error has reached ApplyChanges or
\* Records, the invocation has returned it, and Records returns no endpoints.
C14_HardErrorAborts ==
    /\ \A k \in Sent : httpLog[k].result \in HardErrors =>
        /\ k = Len(httpLog)
        /\ (stack = <<>> /\ ~ret.set) => (pc = "done" /\ err = httpLog[k].result)
    /\ \A i \in ApiCalls : apiLog[i].res \in HardErrors =>
        /\ i = Len(apiLog)
        /\ pc = "done" /\ err = apiLog[i].res /\ ~ap.active
    /\ (pc = "done" /\ err \in HardErrors) =>
        /\ out = <<>>
        /\ stack = <<>> /\ ~ap.active

\* ApplyChanges stopped at a failed request of its Delete loop and made no
\* call for the records it was to create
C14_Witness ==
    /\ pc = "done" /\ err = "status" /\ cfg.APIVersion = "6"
    /\ httpLog # <<>> /\ httpLog[Len(httpLog)].result = "status"
    /\ changes.Create # <<>> /\ applyCheck(changes.Create[1]) = "go"
    /\ \A i \in ApiCalls : apiLog[i].src = "Delete"

\* ------------------------------------------------------------ newPiholeClientV6
\* mutant: the constructor does not look at cfg.Server
serverCheckMissing(c) == "nil"

\* the first statement of newPiholeClientV6
serverCheck(c) == IF ~c.Server THEN "ErrNoPiholeServer" ELSE "nil"

\* NewPiholeProvider calls newPiholeClientV6(cfg): no server is an error; with
\* a password retrieveNewToken sends the token request through do()
NewClient ==
    /\ pc = "unbuilt"
    /\ IF serverCheck(cfg) # "nil"
       THEN /\ pc' = "failed" /\ err' = serverCheck(cfg)
            /\ stack' = stack
       ELSE IF cfg.Password
       THEN /\ pc' = "new" /\ err' = err
            /\ stack' = <<Frame(TokenRequest, 0)>>
       ELSE /\ pc' = "idle" /\ err' = err
            /\ stack' = stack
    /\ UNCHANGED <<others, srv, cfg, token, changes, idx, updateNew, pending, out, apiLog,
                   ap, ret, httpLog, op, budget>>

\* retrieveNewToken returned to newPiholeClientV6: an error fails the
\* construction, nil returns the client
ConstructReturn ==
    /\ pc = "new" /\ stack = <<>> /\ ret.set
    /\ ret' = NoRet
    /\ IF ret.err # "nil"
       THEN pc' = "failed" /\ err' = ret.err /\ token' = token
       ELSE pc' = "idle" /\ err' = err /\ token' = newToken(ret.body, token)
    /\ UNCHANGED <<others, srv, cfg, changes, idx, updateNew, pending, out, apiLog,
                   ap, stack, httpLog, op, budget>>

\* before NewPiholeProvider runs: any configuration of the v6 client
InitNew ==
    /\ \E server \in BOOLEAN, password \in BOOLEAN :
        cfg = [Config("6", FALSE, IncludeExampleOrg, password) EXCEPT !.Server = server]
    /\ token = 0
    /\ changes = NoChanges
    /\ pc = "unbuilt" /\ idx = 0
    /\ updateNew = EmptyMap /\ pending = {}
    /\ err = "none" /\ out = <<>>
    /\ apiLog = <<>> /\ ap = NoApply
    /\ stack = <<>> /\ ret = NoRet /\ httpLog = <<>> /\ op = 0
    /\ budget = ProviderFaults
    /\ srv = Untracked /\ conc = NoPasses /\ filt = NoFilter /\ gw = NoGateway

NextNew ==
    \/ NewClient
    \/ ConstructReturn
    \/ Records
    \/ ListRecords
    \/ ListReturn
    \/ DoSend
    \/ Introspect
    \/ RefreshReturn

SpecNew == InitNew /\ [][NextNew]_vars

\* ------------------------------------------------------------ C15
\* C15: with an empty Server the construction fails with ErrNoPiholeServer:
\* no request is ever sent, no token acquired, and no client exists to call.
C15_NoServerFailsConstruction ==
    ~cfg.Server =>
        /\ pc \in {"unbuilt", "failed"}
        /\ pc = "failed" => err = "ErrNoPiholeServer"
        /\ httpLog = <<>> /\ stack = <<>> /\ token = 0

C15_Witness == ~cfg.Server /\ cfg.Password /\ pc = "failed" /\ err = "ErrNoPiholeServer"

\* ------------------------------------------------------------ C16
\* the constructor has returned a client
Built == pc \notin {"unbuilt", "new", "failed"}

\* C16 (as claimed): a client constructed with a Password holds a token, and
\* without a Password no token request is made and no token is held.
C16_PasswordGivesToken ==
    /\ (Built /\ cfg.Password) => token # 0
    /\ ~cfg.Password => (token = 0 /\ \A k \in Sent : ~IsTokenRequest(k))

\* ====================================================== DomainFilter alone
\* NewDomainFilterWithExclusions, IsConfigured and Match called directly, on
\* rules and names in every spelling: the canonical spelling of each rule and
\* name is drawn from the sets below, and a set of respellings is applied to it.

\* longest list of inclusion rules
MaxRules == 2

\* unicode.ToUpper on the letters of the names of the model
UpperOf(c) ==
    CASE c = "a" -> "A" [] c = "b" -> "B" [] c = "c" -> "C" [] c = "d" -> "D"
      [] c = "e" -> "E" [] c = "f" -> "F" [] c = "g" -> "G" [] c = "h" -> "H"
      [] c = "i" -> "I" [] c = "j" -> "J" [] c = "k" -> "K" [] c = "l" -> "L"
      [] c = "m" -> "M" [] c = "n" -> "N" [] c = "o" -> "O" [] c = "p" -> "P"
      [] c = "q" -> "Q" [] c = "r" -> "R" [] c = "s" -> "S" [] c = "t" -> "T"
      [] c = "u" -> "U" [] c = "v" -> "V" [] c = "w" -> "W" [] c = "x" -> "X"
      [] c = "y" -> "Y" [] c = "z" -> "Z"
      [] OTHER -> c

RECURSIVE ToUpper(_)
ToUpper(s) ==
    IF Len(s) = 0 THEN s
    ELSE IF Head(s) = "/" /\ Begins(s, "/230") THEN "/198" \o ToUpper(SubSeq(s, 5, Len(s)))
    ELSE IF Head(s) = "/" /\ Begins(s, "/229") THEN "/197" \o ToUpper(SubSeq(s, 5, Len(s)))
    ELSE UpperOf(Head(s)) \o ToUpper(Tail(s))

\* punycode encoding of the non-ASCII labels of the model
punyEncode(label) ==
    CASE label = "/obar" -> "xn--bar-zna"
      [] label = "/40670/30475" -> "xn--c1yn36f"
      [] label = "nordic-/o" -> "xn--nordic--w1a"
      [] label = "kitty/128568" -> "xn--kitty-pd34d"
      [] label = "xn--kitty-/40670/30475pd34d" -> "xn--xn--kitty-pd34d-hn01b3542b"
      [] label = "stonks/128200" -> "xn--stonks-u354e"
      [] label = "/230/o/229" -> "xn--5cab8c"
      [] label = "/128525" -> "xn--r28h"
      [] OTHER -> label

\* idna ToASCII
ToASCII(s) ==
    LET labels == Split(s)
    IN Join([i \in 1..Len(labels) |-> punyEncode(labels[i])])

\* the respellings of a name, applied in this order
NameSpellings == SUBSET {"ascii", "upper", "dot"}
RuleSpellings == SUBSET {"ascii", "upper", "dot", "space"}

Spell(s, how) ==
    LET s1 == IF "ascii" \in how THEN ToASCII(s) ELSE s
        s2 == IF "upper" \in how THEN ToUpper(s1) ELSE s1
        s3 == IF "dot" \in how THEN s2 \o "." ELSE s2
    IN IF "space" \in how THEN " " \o s3 \o "  " ELSE s3

SpellAll(rules, how) == [i \in 1..Len(rules) |-> Spell(rules[i], how)]

\* canonical names and rules
FilterNames ==
    {"example.org", "test.example.org", "anexample.org", "test.anexample.org",
     "/obar.org", "test./obar.org"}
IncludeRules == {"example.org", ".example.org", "/obar.org", ""}
ExcludeRules == {"example.org", ".example.org", "test.example.org", ""}

RuleLists(rules, n) == UNION {[1..k -> rules] : k \in 0..n}

\* a result not asked for yet
NoResult == <<>>

\* the inputs of the calls: rule lists, a name, and their spellings
FilterInputs(include, exclude, names) ==
    \E fs \in RuleLists(include, MaxRules), ex \in RuleLists(exclude, 1),
       name \in names, rhow \in RuleSpellings, nhow \in NameSpellings :
         filt = [set |-> TRUE, Filters |-> fs, exclude |-> ex, rules |-> rhow,
                 name |-> name, spelled |-> nhow,
                 built |-> FALSE, zero |-> FALSE, df |-> ZeroDomainFilter,
                 configured |-> NoResult, match |-> NoResult, parent |-> NoResult]

InitFilter ==
    /\ InitProvider /\ srv = Untracked /\ conc = NoPasses /\ gw = NoGateway
    /\ cfg = Config("6", FALSE, ZeroDomainFilter, FALSE) /\ token = 0
    /\ FilterInputs(IncludeRules, ExcludeRules, FilterNames)

\* df := NewDomainFilterWithExclusions(filters, exclude), rules as spelled
Construct ==
    /\ filt.set /\ ~filt.built
    /\ filt' = [filt EXCEPT !.built = TRUE,
                            !.df = NewDomainFilterWithExclusions(
                                       SpellAll(filt.Filters, filt.rules),
                                       SpellAll(filt.exclude, filt.rules))]
    /\ UNCHANGED <<gw, conc, srv, cfg, token, changes, pc, idx, updateNew, pending, err, out,
                   apiLog, ap, stack, ret, httpLog, op, budget>>

\* df := DomainFilter{}
ZeroValue ==
    /\ filt.set /\ ~filt.built
    /\ filt.Filters = <<>> /\ filt.exclude = <<>> /\ filt.rules = {}
    /\ filt' = [filt EXCEPT !.built = TRUE, !.zero = TRUE, !.df = ZeroDomainFilter]
    /\ UNCHANGED <<gw, conc, srv, cfg, token, changes, pc, idx, updateNew, pending, err, out,
                   apiLog, ap, stack, ret, httpLog, op, budget>>

\* df.IsConfigured()
CallIsConfigured ==
    /\ filt.set /\ filt.built /\ filt.configured = NoResult
    /\ filt' = [filt EXCEPT !.configured = <<IsConfigured(filt.df)>>]
    /\ UNCHANGED <<gw, conc, srv, cfg, token, changes, pc, idx, updateNew, pending, err, out,
                   apiLog, ap, stack, ret, httpLog, op, budget>>

\* df.Match(name), the name as spelled
CallMatch ==
    /\ filt.set /\ filt.built /\ filt.match = NoResult
    /\ filt' = [filt EXCEPT !.match = <<Match(filt.df, Spell(filt.name, filt.spelled))>>]
    /\ UNCHANGED <<gw, conc, srv, cfg, token, changes, pc, idx, updateNew, pending, err, out,
                   apiLog, ap, stack, ret, httpLog, op, budget>>

NextFilter ==
    \/ Construct
    \/ ZeroValue
    \/ CallIsConfigured
    \/ CallMatch

SpecFilter == InitFilter /\ [][NextFilter]_vars

\* ------------------------------------------------------------ C17
\* the filter was built from nothing but empty rules: "", whitespace, a lone
\* dot, with or without whitespace around it (or from no rule at all)
OnlyEmptyRules ==
    /\ \A i \in 1..Len(filt.Filters) : filt.Filters[i] = ""
    /\ \A i \in 1..Len(filt.exclude) : filt.exclude[i] = ""
    /\ filt.rules \subseteq {"dot", "space"}

\* C17: a DomainFilter that is the zero value, or was built from empty,
\* whitespace-only or lone-dot rules on both sides, reports IsConfigured()
\* false and matches every name, written with or without a trailing dot.
C17_UnconfiguredMatchesAll ==
    (filt.set /\ filt.built /\ OnlyEmptyRules) =>
        /\ filt.configured # NoResult => filt.configured = <<FALSE>>
        /\ filt.match # NoResult => filt.match = <<TRUE>>

C17_Witness ==
    /\ filt.set /\ filt.built /\ ~filt.zero
    /\ filt.Filters = <<"", "">> /\ filt.exclude = <<"">> /\ filt.rules = {"dot", "space"}
    /\ filt.df = ZeroDomainFilter
    /\ filt.name = "test.example.org" /\ filt.spelled = {"dot"}
    /\ filt.configured = <<FALSE>> /\ filt.match = <<TRUE>>

\* ------------------------------------------------------------ C18
\* what a rule says of a name, both in canonical spelling and read as plain
\* characters: a rule with a leading dot covers the names that end with it, a
\* rule without covers the name equal to it and the names that end with a dot
\* followed by it
RuleCovers(rule, name) ==
    IF Head(rule) = "."
    THEN HasSuffix(name, rule) /\ name # rule
    ELSE name = rule \/ HasSuffix(name, "." \o rule)

\* the rules of a list that are not empty
Given(rules) == {rules[i] : i \in 1..Len(rules)} \ {""}

Included == Given(filt.Filters) = {} \/ \E rule \in Given(filt.Filters) : RuleCovers(rule, filt.name)

\* C18: without exclusion rules, Match is true exactly when some inclusion
\* rule covers the name: "example.org" covers example.org and
\* test.example.org but not anexample.org nor test.anexample.org, and
\* ".example.org" covers test.example.org but not example.org.
C18_SuffixInclusion ==
    (filt.set /\ filt.match # NoResult /\ Given(filt.exclude) = {}) =>
        /\ filt.match = <<Included>>
        /\ ( RuleCovers("example.org", filt.name) <=>
                filt.name \in {"example.org", "test.example.org"} )
        /\ ( RuleCovers(".example.org", filt.name) <=> filt.name = "test.example.org" )

C18_Witness ==
    /\ filt.set /\ filt.Filters = <<"example.org">> /\ filt.exclude = <<>>
    /\ filt.name = "test.anexample.org" /\ filt.match = <<FALSE>>

\* ------------------------------------------------------------ C19
Excluded == \E rule \in Given(filt.exclude) : RuleCovers(rule, filt.name)

\* C19: a name covered by an exclusion rule does not match, whatever the
\* inclusion rules say, the same rule on both sides included; a name covered by
\* an inclusion rule and by no exclusion rule matches.
C19_ExclusionWins ==
    (filt.set /\ filt.match # NoResult) =>
        /\ Excluded => filt.match = <<FALSE>>
        /\ (Included /\ ~Excluded) => filt.match = <<TRUE>>

C19_Witness ==
    /\ filt.set /\ filt.Filters = <<"example.org">> /\ filt.exclude = <<"example.org">>
    /\ filt.name = "test.example.org" /\ filt.match = <<FALSE>>
    /\ Included /\ Excluded

\* ------------------------------------------------------------ C20
\* C20: Match answers for respelled rules and a respelled name what it
\* answers for their canonical spellings: letter case, a trailing dot,
\* whitespace around a rule and the ASCII-compatible encoding of a label make
\* no difference, and the filter built from respelled rules is the filter
\* built from the canonical ones.
C20_SpellingInsensitive ==
    LET canonical == NewDomainFilterWithExclusions(filt.Filters, filt.exclude)
    IN (filt.set /\ filt.built /\ ~filt.zero) =>
          /\ filt.df = canonical
          /\ filt.match # NoResult => filt.match = <<Match(canonical, filt.name)>>

C20_Witness ==
    /\ filt.set /\ filt.built
    /\ filt.Filters = <<"/obar.org", ".example.org">> /\ filt.exclude = <<"test.example.org">>
    /\ filt.rules = {"ascii", "upper", "dot", "space"}
    /\ filt.name = "test./obar.org" /\ filt.spelled = {"ascii", "upper", "dot"}
    /\ Spell(filt.name, filt.spelled) = "TEST.XN--BAR-ZNA.ORG."
    /\ SpellAll(filt.Filters, filt.rules) = <<" XN--BAR-ZNA.ORG.  ", " .EXAMPLE.ORG.  ">>
    /\ filt.match = <<TRUE>>

\* ====================================================== MatchParent
\* rules and names of the calls of MatchParent (TestDomainFilterMatchParent)
ParentRules == {"test.example.org", ".test.example.org", "example.org", ""}
ParentExcludes == {"example.org", ""}
ParentNames == {"org", "example.org", "anexample.org", "b.example.org", "test.example.org"}

InitParent ==
    /\ InitProvider /\ srv = Untracked /\ conc = NoPasses /\ gw = NoGateway
    /\ cfg = Config("6", FALSE, ZeroDomainFilter, FALSE) /\ token = 0
    /\ FilterInputs(ParentRules, ParentExcludes, ParentNames)

\* df.MatchParent(name), the name as spelled
CallMatchParent ==
    /\ filt.set /\ filt.built /\ filt.parent = NoResult
    /\ filt' = [filt EXCEPT !.parent = <<MatchParent(filt.df, Spell(filt.name, filt.spelled))>>]
    /\ UNCHANGED <<gw, conc, srv, cfg, token, changes, pc, idx, updateNew, pending, err, out,
                   apiLog, ap, stack, ret, httpLog, op, budget>>

NextParent ==
    \/ Construct
    \/ ZeroValue
    \/ CallMatchParent

SpecParent == InitParent /\ [][NextParent]_vars

\* ------------------------------------------------------------ C21
\* the name is a strict parent of the rule: the rule ends with "." + name
StrictParent(name, rule) == HasSuffix(rule, "." \o name)

\* C21 (as claimed): MatchParent is true exactly when the name is not excluded
\* and is equal to, or a strict parent of, some inclusion rule, or there is
\* no inclusion rule.
C21_ParentOrEqual ==
    (filt.set /\ filt.parent # NoResult) =>
        filt.parent = << /\ ~Excluded
                         /\ \/ Given(filt.Filters) = {}
                            \/ \E rule \in Given(filt.Filters) :
                                   filt.name = rule \/ StrictParent(filt.name, rule) >>

\* C21 (amended): MatchParent is true exactly when the name is not excluded
\* and is a strict parent of some inclusion rule written without a leading
\* dot, or there is no inclusion rule; a name equal to a rule is not a parent.
C21_StrictParentOnly ==
    (filt.set /\ filt.parent # NoResult) =>
        filt.parent = << /\ ~Excluded
                         /\ \/ Given(filt.Filters) = {}
                            \/ \E rule \in Given(filt.Filters) :
                                   Head(rule) # "." /\ StrictParent(filt.name, rule) >>

C21_Witness ==
    /\ filt.set /\ filt.Filters = <<"test.example.org">> /\ filt.exclude = <<>>
    /\ filt.name = "example.org" /\ filt.spelled = {"upper", "dot"}
    /\ filt.parent = <<TRUE>>

\* ====================================================== serialization
\* the characters of names in byte order; a character written with "/" is
\* outside ASCII and sorts after them all ("/" itself is in no name)
ByteOrder == " *-.0123456789ABCDEFGHIJKLMNOPQRSTUVWXYZ_abcdefghijklmnopqrstuvwxyz/"
ByteRank(c) == IndexFrom(ByteOrder, c, 1)

\* a < b as Go compares strings, byte after byte
RECURSIVE StringLess(_, _)
StringLess(a, b) ==
    IF Len(b) = 0 THEN FALSE
    ELSE IF Len(a) = 0 THEN TRUE
    ELSE IF Head(a) = Head(b) THEN StringLess(Tail(a), Tail(b))
    ELSE ByteRank(Head(a)) < ByteRank(Head(b))

\* sort.Strings
RECURSIVE SortStrings(_)
SortStrings(rules) ==
    IF rules = <<>> THEN <<>>
    ELSE LET rest == SortStrings(Tail(rules))
             before == SelectSeq(rest, LAMBDA r : StringLess(r, Head(rules)))
             after == SelectSeq(rest, LAMBDA r : ~StringLess(r, Head(rules)))
         IN before \o <<Head(rules)>> \o after

\* domainFilterSerde; a key left out is an empty list or an empty string
Serde(include, exclude, regexInclude, regexExclude) ==
    [include |-> include, exclude |-> exclude,
     regexInclude |-> regexInclude, regexExclude |-> regexExclude]

\* MarshalJSON leaving the exclusion rules out
MarshalJSONIncludeOnly(df) ==
    IF IsRegexMode(df) THEN Serde(<<>>, <<>>, df.regex, "")
    ELSE Serde(SortStrings(df.Filters), <<>>, "", "")

\* DomainFilter.MarshalJSON
MarshalJSON(df) ==
    IF IsRegexMode(df) THEN Serde(<<>>, <<>>, df.regex, df.regexExclusion)
    ELSE Serde(SortStrings(df.Filters), SortStrings(df.exclude), "", "")

\* regexp.Compile fails on the pattern "*"
Compiles(pattern) == pattern # "*"

\* UnmarshalJSON reading the regex keys and ignoring nothing
UnmarshalJSONBothModes(wire) ==
    IF ~Compiles(wire.regexInclude) THEN [err |-> "invalid regexInclude", df |-> ZeroDomainFilter]
    ELSE IF ~Compiles(wire.regexExclude) THEN [err |-> "invalid regexExclude", df |-> ZeroDomainFilter]
    ELSE [err |-> "nil",
          df |-> [NewDomainFilterWithExclusions(wire.include, wire.exclude)
                     EXCEPT !.regex = wire.regexInclude, !.regexExclusion = wire.regexExclude]]

\* DomainFilter.UnmarshalJSON
UnmarshalJSON(wire) ==
    IF wire.regexInclude = "" /\ wire.regexExclude = ""
    THEN [err |-> "nil", df |-> NewDomainFilterWithExclusions(wire.include, wire.exclude)]
    ELSE IF Len(wire.include) > 0 \/ Len(wire.exclude) > 0
    THEN [err |-> "cannot have both domain list and regex", df |-> ZeroDomainFilter]
    ELSE IF ~Compiles(wire.regexInclude)
    THEN [err |-> "invalid regexInclude", df |-> ZeroDomainFilter]
    ELSE IF ~Compiles(wire.regexExclude)
    THEN [err |-> "invalid regexExclude", df |-> ZeroDomainFilter]
    ELSE [err |-> "nil", df |-> NewRegexDomainFilter(wire.regexInclude, wire.regexExclude)]

\* rules, patterns and names of the calls
\* "example.org." keeps a dot after the one that normalization strips, and
\* two when it is spelled with a trailing dot
SerdeRules == {"example.org", ".example.org", "test.example.org", "example.org.", ""}
SerdeExcludes == {"test.example.org", ""}
IncludePatterns == {"", "\\.org$", "*"}
ExcludePatterns == {"", "^test\\.example\\.org$", "*"}
SerdeNames == {"org", "example.org", "test.example.org", "anexample.org", "example.org."}

InitSerde ==
    /\ InitProvider /\ srv = Untracked /\ conc = NoPasses /\ gw = NoGateway
    /\ cfg = Config("6", FALSE, ZeroDomainFilter, FALSE) /\ token = 0
    /\ \E fs \in RuleLists(SerdeRules, MaxRules), ex \in RuleLists(SerdeExcludes, 1),
          ri \in IncludePatterns, re \in ExcludePatterns, rhow \in RuleSpellings :
            filt = [set |-> TRUE, stage |-> "new", origin |-> "none",
                    given |-> Serde(SpellAll(fs, rhow), SpellAll(ex, rhow), ri, re),
                    df |-> ZeroDomainFilter, wire |-> Serde(<<>>, <<>>, "", ""),
                    err |-> "none", back |-> ZeroDomainFilter]

\* df := NewDomainFilterWithExclusions(include, exclude)
NewListFilter ==
    /\ filt.set /\ filt.stage = "new"
    /\ filt.given.regexInclude = "" /\ filt.given.regexExclude = ""
    /\ filt' = [filt EXCEPT !.stage = "built", !.origin = "list",
                   !.df = NewDomainFilterWithExclusions(filt.given.include, filt.given.exclude)]
    /\ UNCHANGED <<gw, conc, srv, cfg, token, changes, pc, idx, updateNew, pending, err, out,
                   apiLog, ap, stack, ret, httpLog, op, budget>>

\* df := NewRegexDomainFilter(regexp.MustCompile(..), regexp.MustCompile(..))
NewRegexFilter ==
    /\ filt.set /\ filt.stage = "new"
    /\ filt.given.include = <<>> /\ filt.given.exclude = <<>>
    /\ Compiles(filt.given.regexInclude) /\ Compiles(filt.given.regexExclude)
    /\ filt' = [filt EXCEPT !.stage = "built", !.origin = "regex",
                   !.df = NewRegexDomainFilter(filt.given.regexInclude, filt.given.regexExclude)]
    /\ UNCHANGED <<gw, conc, srv, cfg, token, changes, pc, idx, updateNew, pending, err, out,
                   apiLog, ap, stack, ret, httpLog, op, budget>>

\* json.Marshal(df)
Marshal ==
    /\ filt.set /\ filt.stage = "built"
    /\ filt' = [filt EXCEPT !.stage = "wire", !.wire = MarshalJSON(filt.df)]
    /\ UNCHANGED <<gw, conc, srv, cfg, token, changes, pc, idx, updateNew, pending, err, out,
                   apiLog, ap, stack, ret, httpLog, op, budget>>

\* a payload written by someone else arrives
Receive ==
    /\ filt.set /\ filt.stage = "new"
    /\ filt' = [filt EXCEPT !.stage = "wire", !.origin = "given", !.wire = filt.given]
    /\ UNCHANGED <<gw, conc, srv, cfg, token, changes, pc, idx, updateNew, pending, err, out,
                   apiLog, ap, stack, ret, httpLog, op, budget>>

\* json.Unmarshal(wire, &deserialized)
Unmarshal ==
    /\ filt.set /\ filt.stage = "wire"
    /\ LET res == UnmarshalJSON(filt.wire)
       IN filt' = [filt EXCEPT !.stage = "back", !.err = res.err, !.back = res.df]
    /\ UNCHANGED <<gw, conc, srv, cfg, token, changes, pc, idx, updateNew, pending, err, out,
                   apiLog, ap, stack, ret, httpLog, op, budget>>

NextSerde ==
    \/ NewListFilter
    \/ NewRegexFilter
    \/ Marshal
    \/ Receive
    \/ Unmarshal

SpecSerde == InitSerde /\ [][NextSerde]_vars

\* ------------------------------------------------------------ C22
\* C22 (as claimed): a filter that was serialized and deserialized answers
\* Match and MatchParent as the original does, on every name; deserializing
\* what MarshalJSON wrote never fails.
C22_RoundTrip ==
    (filt.set /\ filt.stage = "back" /\ filt.origin \in {"list", "regex"}) =>
        /\ filt.err = "nil"
        /\ \A name \in SerdeNames :
              /\ Match(filt.back, name) = Match(filt.df, name)
              /\ MatchParent(filt.back, name) = MatchParent(filt.df, name)

\* the rules are what normalization makes of them: normalizing them once
\* more changes none and drops none
NormalForm(rules) == prepareFilters(rules) = rules

\* C22 (amended): a filter whose stored rules are in normal form (every rule
\* given with at most one trailing dot is stored so), or a regex filter, that
\* was serialized and deserialized answers Match and MatchParent as the
\* original does, on every name; deserializing what MarshalJSON wrote never
\* fails.
C22_RoundTripNormalForm ==
    (filt.set /\ filt.stage = "back" /\ filt.origin \in {"list", "regex"}) =>
        /\ filt.err = "nil"
        /\ (NormalForm(filt.df.Filters) /\ NormalForm(filt.df.exclude)) =>
              \A name \in SerdeNames :
                  /\ Match(filt.back, name) = Match(filt.df, name)
                  /\ MatchParent(filt.back, name) = MatchParent(filt.df, name)

C22_Witness ==
    /\ filt.set /\ filt.stage = "back" /\ filt.origin = "list" /\ filt.err = "nil"
    /\ filt.given.include = <<" TEST.EXAMPLE.ORG.  ", " .EXAMPLE.ORG.  ">>
    /\ filt.given.exclude = <<" TEST.EXAMPLE.ORG.  ">>
    /\ filt.df.Filters = <<"test.example.org", ".example.org">>
    /\ filt.wire.include = <<".example.org", "test.example.org">>
    /\ filt.wire.exclude = <<"test.example.org">>
    /\ filt.back.Filters = filt.wire.include
    /\ ~Match(filt.back, "test.example.org") /\ MatchParent(filt.back, "example.org")

\* ------------------------------------------------------------ C23
\* a payload with a rule list next to a regex key
MixedModes(wire) ==
    /\ Len(wire.include) > 0 \/ Len(wire.exclude) > 0
    /\ wire.regexInclude # "" \/ wire.regexExclude # ""

\* C23: deserializing a payload that has include or exclude together with
\* regexInclude or regexExclude fails with "cannot have both domain list and
\* regex" and leaves the zero filter; no filter, constructed or deserialized,
\* has both rule lists and patterns.
C23_MixedModesRejected ==
    filt.set =>
        /\ (filt.stage = "back" /\ MixedModes(filt.wire)) =>
              /\ filt.err = "cannot have both domain list and regex"
              /\ filt.back = ZeroDomainFilter
        /\ \A df \in {filt.df, filt.back} :
              ~(IsRegexMode(df) /\ (df.Filters # <<>> \/ df.exclude # <<>>))

C23_Witness ==
    /\ filt.set /\ filt.stage = "back" /\ filt.origin = "given"
    /\ filt.wire = Serde(<<>>, <<"test.example.org">>, "", "^test\\.example\\.org$")
    /\ filt.err = "cannot have both domain list and regex"

\* ====================================================== updates
\* ApplyChanges on ChangeSets of updates: UpdateOld[i] and UpdateNew[i] have
\* the same Entry Key, keys may repeat, and targets come in either order.

\* most updates in one ChangeSet
MaxUpdates == 2

UpdateNames == {"a.example.org", "c.example.org"}
UpdateTargets ==
    {<<"1.1.1.1">>, <<"2.2.2.2">>, <<"1.1.1.1", "2.2.2.2">>, <<"2.2.2.2", "1.1.1.1">>}
UpdateChangeSets ==
    { [Create |-> <<>>, Delete |-> <<>>,
       UpdateOld |-> [i \in 1..n |-> NewEndpointWithTTL(names[i], RecordTypeA, 0, old[i])],
       UpdateNew |-> [i \in 1..n |-> NewEndpointWithTTL(names[i], RecordTypeA, 0, new[i])]] :
        <<n, names, old, new>> \in
            UNION { {k} \X [1..k -> UpdateNames] \X [1..k -> UpdateTargets] \X [1..k -> UpdateTargets] :
                    k \in 1..MaxUpdates } }

\* ApplyChanges is called with a ChangeSet of updates; the backend answers
\* every request nominally
ApplyUpdates ==
    /\ pc = "idle" /\ Idle
    /\ \E cs \in UpdateChangeSets : changes' = cs
    /\ pc' = phaseAfter(pc) /\ idx' = 1
    /\ budget' = 0
    /\ UNCHANGED <<others, srv, cfg, token, updateNew, pending, err, out, apiLog, ap, stack, ret, httpLog, op>>

NextUpdates ==
    \/ ApplyUpdates
    \/ DeleteLoop
    \/ UpdateOldLoop
    \/ CreateLoop
    \/ UpdateNewLoop
    \/ ApplyTarget
    \/ ApplyReturn
    \/ DoSend

SpecUpdates == Init /\ [][NextUpdates]_vars

\* the targets of all UpdateNew records of an Entry Key, as a set
NewTargets(key) ==
    UNION { Range(changes.UpdateNew[j].Targets) :
            j \in {j \in 1..Len(changes.UpdateNew) : piholeEntryKey(changes.UpdateNew[j]) = key} }

\* createRecord/deleteRecord calls made for the updates of an Entry Key
UpdateCalls(key, method) ==
    { a \in ApiCalls : /\ apiLog[a].src \in {"UpdateOld", "UpdateNew"}
                       /\ apiLog[a].method = method
                       /\ KeyOfCall(a) = key }

\* ------------------------------------------------------------ C24
\* C24 (as claimed): with API version 6, an update whose old targets and
\* (merged) new targets are equal as sets, in whatever order they are listed,
\* causes no delete and no create for its Entry Key.
C24_SetEqualityIsNoOp ==
    cfg.APIVersion = "6" =>
        \A i \in 1..Len(changes.UpdateOld) :
            LET key == piholeEntryKey(changes.UpdateOld[i])
            IN Range(changes.UpdateOld[i].Targets) = NewTargets(key) =>
                  UpdateCalls(key, MethodDelete) \cup UpdateCalls(key, MethodPut) = {}


\* ------------------------------------------------------------ C25
\* a set of targets as the sorted list without duplicates
SortedList(S) == SelectSeq(TargetOrder, LAMBDA t : t \in S)

\* C25 (as claimed): with API version 6, every record created for an Entry Key
\* of UpdateNew carries the union of the targets of all UpdateNew records of
\* that key, sorted and without duplicates, and at most one record is created
\* per Entry Key.
C25_MergedSortedUnion ==
    cfg.APIVersion = "6" =>
        \A j \in 1..Len(changes.UpdateNew) :
            LET key == piholeEntryKey(changes.UpdateNew[j])
            IN /\ Cardinality(UpdateCalls(key, MethodPut)) <= 1
               /\ \A a \in UpdateCalls(key, MethodPut) :
                      apiLog[a].ep.Targets = SortedList(NewTargets(key))


\* ------------------------------------------------------------ C26
\* ApplyChanges returned nil
ReturnedNil == pc = "done" /\ err = "nil"

\* the UpdateNew record j is a no-op: an UpdateOld record of its Entry Key has
\* the same first target
Suppressed(j) ==
    \E i \in 1..Len(changes.UpdateOld) :
        /\ piholeEntryKey(changes.UpdateOld[i]) = piholeEntryKey(changes.UpdateNew[j])
        /\ changes.UpdateOld[i].Targets[1] = changes.UpdateNew[j].Targets[1]

\* C26 (as claimed): with an API version other than 6, when ApplyChanges has
\* returned nil, every UpdateNew record that is not a no-op has been created by
\* a createRecord call of its own, also when other UpdateNew records have the
\* same Entry Key.
C26_EachUpdateNewCreated ==
    (cfg.APIVersion # "6" /\ ReturnedNil) =>
        \A j \in 1..Len(changes.UpdateNew) :
            ~Suppressed(j) =>
                \E a \in ApiCalls : /\ apiLog[a].src = "UpdateNew"
                                    /\ apiLog[a].method = MethodPut
                                    /\ apiLog[a].at = j


\* ------------------------------------------------------------ C27
\* the UpdateNew records of an Entry Key
NewOf(key) == { j \in 1..Len(changes.UpdateNew) : piholeEntryKey(changes.UpdateNew[j]) = key }

\* the UpdateNew record ApplyChanges holds for an Entry Key with an API version
\* other than 6: the last one of that key
HeldNew(key) == CHOOSE j \in NewOf(key) : \A k \in NewOf(key) : k <= j

\* calls made for the record at position at of the list src
CallsAt(src, at) == { a \in ApiCalls : apiLog[a].src = src /\ apiLog[a].at = at }

\* C27 (as claimed): with an API version other than 6, when ApplyChanges has
\* returned nil, an UpdateOld record whose Entry Key has an UpdateNew record
\* caused no delete and no create when the first targets of the two records
\* are equal, whatever their further targets; otherwise the old record was
\* deleted and then the new record was created.
C27_FirstTargetDecides ==
    (cfg.APIVersion # "6" /\ ReturnedNil) =>
        \A i \in 1..Len(changes.UpdateOld) :
            LET key == piholeEntryKey(changes.UpdateOld[i])
                old == changes.UpdateOld[i]
            IN NewOf(key) # {} =>
                 IF old.Targets[1] = changes.UpdateNew[HeldNew(key)].Targets[1]
                 THEN CallsAt("UpdateOld", i) \cup CallsAt("UpdateNew", HeldNew(key)) = {}
                 ELSE \E d \in CallsAt("UpdateOld", i), c \in CallsAt("UpdateNew", HeldNew(key)) :
                         /\ d < c
                         /\ apiLog[d].method = MethodDelete /\ apiLog[d].ep = old
                         /\ apiLog[c].method = MethodPut
                         /\ apiLog[c].ep = changes.UpdateNew[HeldNew(key)]


\* ------------------------------------------------------------ C28
\* C28 (as claimed): when ApplyChanges has returned nil, every deleteRecord
\* call it made for an UpdateOld record is followed by a createRecord call for
\* the UpdateNew record of the same Entry Key.
C28_DeletedThenCreated ==
    ReturnedNil =>
        \A d \in ApiCalls :
            (apiLog[d].src = "UpdateOld" /\ apiLog[d].method = MethodDelete) =>
                \E c \in ApiCalls : /\ c > d
                                    /\ apiLog[c].src = "UpdateNew"
                                    /\ apiLog[c].method = MethodPut
                                    /\ KeyOfCall(c) = KeyOfCall(d)


\* ------------------------------------------------------------ C29
\* C29 (as claimed): when apply() of API version 6 has returned for an in-scope
\* valid record (no dry run), with or without an error, a backend call has been
\* issued for every target of the record: a failing call for one target does
\* not keep the calls for the remaining targets from being attempted.
C29_RemainingTargetsAttempted ==
    (cfg.APIVersion = "6" /\ ~cfg.DryRun) =>
        \A i \in ApiCalls :
            (apiLog[i].res # "pending" /\ InScopeValid(apiLog[i].ep)) =>
                Issued(apiLog[i].method, apiLog[i].ep, apiLog[i].src, apiLog[i].at)


\* ------------------------------------------------------------ C30
\* the record is one apply() has to reject: a name with "*", or a CNAME with
\* more than one target
Rejectable(ep) ==
    \/ wildcard[ep.DNSName]
    \/ ep.RecordType = RecordTypeCNAME /\ Len(ep.Targets) > 1

\* the HTTP requests sent for call i of createRecord/deleteRecord
RequestsOf(i) == { k \in Sent : httpLog[k].call = i }

\* C30 (as claimed): with API version 6, a call of createRecord/deleteRecord
\* for an in-scope record whose name contains "*", or for an in-scope CNAME
\* with more than one target, returns a soft error and sends no request.
C30_RejectedBeforeCalls ==
    cfg.APIVersion = "6" =>
        \A i \in ApiCalls :
            (matched[cfg.DomainFilter, apiLog[i].ep.DNSName] /\ Rejectable(apiLog[i].ep)) =>
                apiLog[i].res = "soft" /\ RequestsOf(i) = {}

\* C30 (amended): the same for records of a supported type (A, AAAA, CNAME)
\* with at least one target; a record of another type or without targets is
\* skipped before the validation: no request and no error.
C30_SupportedRejectedBeforeCalls ==
    cfg.APIVersion = "6" =>
        \A i \in ApiCalls :
            LET ep == apiLog[i].ep
            IN (matched[cfg.DomainFilter, ep.DNSName] /\ Rejectable(ep)) =>
                 /\ RequestsOf(i) = {}
                 /\ apiLog[i].res =
                        IF urlForRecordType(ep.RecordType) # "" /\ Len(ep.Targets) > 0
                        THEN "soft" ELSE "nil"

\* an in-scope CNAME with two targets was rejected without a request
C30_Witness ==
    /\ cfg.APIVersion = "6" /\ pc = "done" /\ err = "soft"
    /\ \E i \in ApiCalls :
          /\ matched[cfg.DomainFilter, apiLog[i].ep.DNSName]
          /\ ~wildcard[apiLog[i].ep.DNSName]
          /\ apiLog[i].ep.RecordType = RecordTypeCNAME /\ Len(apiLog[i].ep.Targets) > 1
          /\ apiLog[i].res = "soft" /\ RequestsOf(i) = {}


\* ------------------------------------------------------------ records without targets
\* ApplyChanges on ChangeSets whose records may have an empty Targets list,
\* nil or allocated.

\* most records in each list of such a ChangeSet
MaxSentinel == 1

SentinelRecords ==
    { NewEndpointWithTTL("a.example.org", RecordTypeA, 0, ts) : ts \in {<<>>, <<"1.1.1.1">>} }
        \cup { WithoutTargets("a.example.org", RecordTypeA, 0) }
SentinelLists == UNION { [1..n -> SentinelRecords] : n \in 0..MaxSentinel }
SentinelChangeSets ==
    { [Create |-> c, Delete |-> d, UpdateOld |-> o, UpdateNew |-> n] :
        c \in SentinelLists, d \in SentinelLists,
        <<o, n>> \in { p \in SentinelLists \X SentinelLists : Len(p[1]) = Len(p[2]) } }

\* ApplyChanges is called with such a ChangeSet; the backend answers every
\* request nominally
ApplySentinels ==
    /\ pc = "idle" /\ Idle
    /\ \E cs \in SentinelChangeSets : changes' = cs
    /\ pc' = phaseAfter(pc) /\ idx' = 1
    /\ budget' = 0
    /\ UNCHANGED <<others, srv, cfg, token, updateNew, pending, err, out, apiLog, ap, stack, ret, httpLog, op>>

NextSentinel ==
    \/ ApplySentinels
    \/ DeleteLoop
    \/ UpdateOldLoop
    \/ CreateLoop
    \/ UpdateNewLoop
    \/ ApplyTarget
    \/ ApplyReturn
    \/ DoSend

SpecSentinel == Init /\ [][NextSentinel]_vars

\* ------------------------------------------------------------ C31
\* C31 (as claimed): ApplyChanges does not crash on a record without targets,
\* whatever the API version; with API version 6 every createRecord/deleteRecord
\* call for such a record returns nil and sends no request.
C31_EmptyTargetsNoOp ==
    /\ err # "panic"
    /\ cfg.APIVersion = "6" =>
          \A i \in ApiCalls :
              apiLog[i].ep.Targets = <<>> =>
                  apiLog[i].res = "nil" /\ RequestsOf(i) = {}


\* ------------------------------------------------------------ C32
\* the createRecord calls made from the map updateNew for an Entry Key
SurvivorCalls(key) == { a \in ApiCalls : apiLog[a].src = "UpdateNew" /\ KeyOfCall(a) = key }

C33_CurrentTokenOnly ==
    \A k \in Sent :
        Range(httpLog[k].req.sids) = IF httpLog[k].token # 0 THEN {httpLog[k].token} ELSE {}


\* ------------------------------------------------------------ C34
\* request k was answered 401 (an error envelope) while the client held no token
Answered401NoToken(k) ==
    /\ httpLog[k].token = 0
    /\ httpLog[k].resp.status = StatusUnauthorized /\ httpLog[k].resp.tag = "error"

\* C34: a request answered 401 while the client holds no token makes do()
\* return the status error at once: it is the request of its operation, and
\* no introspection request, no token request and no further send of the
\* request follows in that operation.
C34_NoTokenNoRenewal ==
    \A k \in Sent :
        Answered401NoToken(k) =>
            /\ httpLog[k].result = "status"
            /\ IsOrig(k)
            /\ \A l \in Sent : l > k => ~SameOp(k, l)
            /\ (k = Len(httpLog) /\ apiLog # <<>> /\ httpLog[k].call = Len(apiLog)) =>
                  Last(apiLog).res \in {"pending", "status"}

\* createRecord/deleteRecord returned the status error after a single request
\* that was answered 401 without a token
C34_Witness ==
    /\ pc = "done" /\ err = "status" /\ stack = <<>> /\ token = 0
    /\ \E k \in Sent :
          /\ Answered401NoToken(k) /\ FirstOfOp(k) /\ k = Len(httpLog)
          /\ httpLog[k].req.method \in {MethodPut, MethodDelete}
          /\ Last(apiLog).res = "status"


\* ------------------------------------------------------------ C35
\* the token requests (POST /api/auth) sent in operation o
TokenRequests(o) == { k \in Sent : httpLog[k].op = o /\ IsTokenRequest(k) }

\* C35 (as claimed): a token request answered 401 while a token is held does
\* not enter the renewal branch of do(), and no operation sends more than 3
\* token requests.
C35_TokenRequestsBounded ==
    /\ \A k \in Sent :
          (IsTokenRequest(k) /\ Answered401(k)) => httpLog[k].result # "renew"
    /\ \A o \in 1..op : Cardinality(TokenRequests(o)) <= maxRetries


\* ------------------------------------------------------------ C36
\* Records has returned its endpoints without error
RecordsReturned ==
    pc = "done" /\ err = "nil" /\ apiLog = <<>> /\ op = Len(RecordCategories)

\* the lines listRecords got for category c: those of the last answer to the
\* GET of the c-th operation
ListingOf(c) ==
    LET k == CHOOSE k \in Sent :
                /\ httpLog[k].op = c /\ IsOrig(k)
                /\ \A l \in Sent : (httpLog[l].op = c /\ IsOrig(l)) => l <= k
    IN IF RecordCategories[c] = RecordTypeCNAME
       THEN httpLog[k].resp.cnames ELSE httpLog[k].resp.hosts

\* the well-formed lines of a listing that are records of type rtype
WellFormed(lines, rtype) == SelectSeq(lines, LAMBDA l : ~lineSkipped(Fields(l), rtype))
LineName(l, rtype) == lineEndpoint(Fields(l), rtype).DNSName
LineTarget(l, rtype) == lineEndpoint(Fields(l), rtype).Targets[1]

\* the targets of the well-formed lines for name, in line order
TargetsListed(lines, rtype, name) ==
    LET own == SelectSeq(WellFormed(lines, rtype), LAMBDA l : LineName(l, rtype) = name)
    IN [i \in 1..Len(own) |-> LineTarget(own[i], rtype)]

\* C36: when Records has returned, for every category and every DNS name with
\* a well-formed line in the listing of that category, the result holds an
\* endpoint of that name and type whose Targets are the targets of all these
\* lines in line order; the endpoints of the three categories are all there.
C36_NoTargetLost ==
    RecordsReturned =>
        \A c \in 1..Len(RecordCategories) :
            LET rtype == RecordCategories[c]
                lines == WellFormed(ListingOf(c), rtype)
            IN \A n \in 1..Len(lines) :
                 \E e \in 1..Len(out) :
                    /\ out[e].DNSName = LineName(lines[n], rtype)
                    /\ out[e].RecordType = rtype
                    /\ out[e].Targets = TargetsListed(ListingOf(c), rtype, LineName(lines[n], rtype))

\* Records returned a name with both its A targets, in line order, and with
\* its AAAA endpoint
C36_Witness ==
    /\ RecordsReturned
    /\ \E e, f \in 1..Len(out) :
          /\ out[e].DNSName = "a.example.org" /\ out[e].RecordType = RecordTypeA
          /\ out[e].Targets = <<"2.2.2.2", "1.1.1.1">>
          /\ out[f].DNSName = "a.example.org" /\ out[f].RecordType = RecordTypeAAAA
          /\ out[f].Targets = <<"::1">>


\* ------------------------------------------------------------ C37
\* the number of targets of the endpoints of type rtype in the result
RECURSIVE TargetCount(_, _)
TargetCount(eps, rtype) ==
    IF eps = <<>> THEN 0
    ELSE (IF Head(eps).RecordType = rtype THEN Len(Head(eps).Targets) ELSE 0)
         + TargetCount(Tail(eps), rtype)

\* a line of fewer than two fields
Malformed(l) == Len(Fields(l)) < 2

\* C37: when Records has returned, no two endpoints of the result have the same
\* Entry Key, every endpoint has a target, and the endpoints of a category
\* carry one target per well-formed line of its listing and nothing else, so
\* a malformed line adds no endpoint; and Records fails only when a request
\* fails or its answer does not parse, never because of a line.
C37_OnePerKeyNoneEmpty ==
    /\ RecordsReturned =>
          /\ \A e, f \in 1..Len(out) :
                piholeEntryKey(out[e]) = piholeEntryKey(out[f]) => e = f
          /\ \A e \in 1..Len(out) : Len(out[e].Targets) >= 1
          /\ \A c \in 1..Len(RecordCategories) :
                TargetCount(out, RecordCategories[c])
                    = Len(WellFormed(ListingOf(c), RecordCategories[c]))
    /\ (pc = "done" /\ apiLog = <<>> /\ httpLog # <<>> /\ err # "nil") =>
          \/ Last(httpLog).result # "nil"
          \/ Last(httpLog).resp.tag = "bad"

\* Records returned endpoints from a listing with a malformed line
C37_Witness ==
    /\ RecordsReturned
    /\ \E i \in 1..Len(ListingOf(1)) : Malformed(ListingOf(1)[i])
    /\ \E e \in 1..Len(out) : out[e].RecordType = RecordTypeA
    /\ TargetCount(out, RecordTypeA) = 1


\* ------------------------------------------------------------ C38
\* C38 (as claimed): from its call to its return ApplyChanges leaves the
\* ChangeSet it was given as it is: no step of it changes a record of
\* changes.Create, Delete, UpdateOld or UpdateNew.
C38_InputUnchanged == [][pc # "idle" => changes' = changes]_vars


\* ------------------------------------------------------------ dry run
\* the provider of API version 6 with DryRun set or not
InitDryRun ==
    /\ cfg \in {Config("6", d, IncludeExampleOrg, TRUE) : d \in BOOLEAN}
    /\ token = 1
    /\ InitIdle

NextDryRun ==
    \/ ApplyChanges
    \/ DeleteLoop
    \/ UpdateOldLoop
    \/ CreateLoop
    \/ UpdateNewLoop
    \/ ApplyTarget
    \/ ApplyReturn
    \/ DoSend
    \/ Introspect
    \/ RefreshReturn

SpecDryRun == InitDryRun /\ [][NextDryRun]_vars

\* ------------------------------------------------------------ C39
\* C39: with DryRun set, the v6 client hands no request to do() during
\* ApplyChanges: no PUT and no DELETE (nor any other request) is sent or about
\* to be sent, whatever the ChangeSet.
C39_DryRunSendsNothing ==
    cfg.DryRun =>
        /\ \A k \in Sent : httpLog[k].req.method \notin {MethodPut, MethodDelete}
        /\ httpLog = <<>> /\ stack = <<>> /\ op = 0

\* with DryRun set ApplyChanges returned nil after a deleteRecord and a
\* createRecord call for in-scope valid records, and nothing was sent
C39_Witness ==
    /\ cfg.DryRun /\ ReturnedNil /\ httpLog = <<>>
    /\ \E a, b \in ApiCalls :
          /\ apiLog[a].method = MethodDelete /\ InScopeValid(apiLog[a].ep)
          /\ apiLog[b].method = MethodPut /\ InScopeValid(apiLog[b].ep)
          /\ Len(apiLog[b].ep.Targets) > 1
          /\ apiLog[a].res = "nil" /\ apiLog[b].res = "nil"


\* ------------------------------------------------------------ gatewaySource.hostNamesFromGateway
\* most servers of a gateway, and most hosts of a server
MaxServers == 2
MaxHosts == 2

\* strings.Split(s, "/"): cur is the part being read
RECURSIVE SplitSlashFrom(_, _)
SplitSlashFrom(s, cur) ==
    IF Len(s) = 0 THEN <<cur>>
    ELSE IF Head(s) = "/" THEN <<cur>> \o SplitSlashFrom(Tail(s), "")
    ELSE SplitSlashFrom(Tail(s), cur \o Head(s))

\* the body of the inner loop for one host of a server: the hostnames the
\* host adds (none or one)
hostNamesFromHost(host) ==
    IF host = "" THEN <<>>
    ELSE LET parts == SplitSlashFrom(host, "")
             name == IF Len(parts) = 2 THEN parts[2] ELSE host
         IN IF name # "*" THEN <<name>> ELSE <<>>

\* the two loops over gateway.Spec.Servers and server.Hosts
RECURSIVE hostNamesFromHosts(_)
hostNamesFromHosts(hosts) ==
    IF hosts = <<>> THEN <<>>
    ELSE hostNamesFromHost(Head(hosts)) \o hostNamesFromHosts(Tail(hosts))

RECURSIVE hostNamesFromServers(_)
hostNamesFromServers(servers) ==
    IF servers = <<>> THEN <<>>
    ELSE hostNamesFromHosts(Head(servers)) \o hostNamesFromServers(Tail(servers))

\* hostNamesFromGateway: annotated is what annotations.HostnamesFromAnnotations
\* returns for the annotations of the gateway
hostNamesFromGateway(servers, annotated, ignoreHostnameAnnotation) ==
    hostNamesFromServers(servers)
        \o (IF ~ignoreHostnameAnnotation THEN annotated ELSE <<>>)

\* hosts a server of a gateway may list, and hostnames its annotations may give
GatewayHosts == {"", "*", "a.example.org", "ns/b.example.org", "ns/*", "ns/"}
HostLists == UNION { [1..n -> GatewayHosts] : n \in 0..MaxHosts }
AnnotatedHostnames == {<<>>, <<"n.example.org">>}

InitGateway ==
    /\ InitProvider /\ srv = Untracked /\ conc = NoPasses /\ filt = NoFilter
    /\ cfg = Config("6", FALSE, ZeroDomainFilter, FALSE) /\ token = 0
    /\ \E n \in 0..MaxServers : \E servers \in [1..n -> HostLists] :
       \E annotated \in AnnotatedHostnames, ignore \in BOOLEAN :
          gw = [set |-> TRUE, servers |-> servers, annotated |-> annotated,
                ignoreHostnameAnnotation |-> ignore, hostnames |-> NoResult]

\* hostNamesFromGateway is called for the gateway
CallHostNames ==
    /\ gw.set /\ gw.hostnames = NoResult
    /\ gw' = [gw EXCEPT !.hostnames =
                <<hostNamesFromGateway(gw.servers, gw.annotated, gw.ignoreHostnameAnnotation)>>]
    /\ UNCHANGED <<conc, filt, srv, cfg, token, changes, pc, idx, updateNew, pending, err, out,
                   apiLog, ap, stack, ret, httpLog, op, budget>>

NextGateway == CallHostNames

SpecGateway == InitGateway /\ [][NextGateway]_vars

\* ------------------------------------------------------------ C40
\* the last n elements of a list
Suffix(s, n) == SubSeq(s, Len(s) - n + 1, Len(s))

\* C40 (as claimed): the hostnames returned for a gateway contain neither ""
\* nor "*" nor a name with its namespace ("/"), and they end with the
\* hostnames of the annotations exactly when ignoreHostnameAnnotation is false
\* (else none of those is returned).
C40_HostNamesClean ==
    (gw.set /\ gw.hostnames # NoResult) =>
        LET names == gw.hostnames[1] IN
        /\ \A i \in 1..Len(names) :
              /\ names[i] \notin {"", "*"}
              /\ SplitSlashFrom(names[i], "") = <<names[i]>>
        /\ IF gw.ignoreHostnameAnnotation
           THEN \A i \in 1..Len(names) : names[i] \notin Range(gw.annotated)
           ELSE /\ Len(names) >= Len(gw.annotated)
                /\ Suffix(names, Len(gw.annotated)) = gw.annotated

====
